---- MODULE Spec2Model ----
(***************************************************************************)
(* Predicate compilation of the query layer: RLMPredicateToQuery and the   *)
(* QueryBuilder of RLMQueryBuilder.mm, with the QueryMixed value model of  *)
(* RLMQueryBuilder.hpp.  A compilation is a pure function of the predicate, *)
(* the schema and the objects of the group; it is modelled as operators    *)
(* that return the calls made on the realm::Query (a sequence of tokens)   *)
(* together with the way the call ended: normally, by a thrown             *)
(* std::logic_error, or by process termination (REALM_ASSERT,              *)
(* REALM_UNREACHABLE).                                                     *)
(***************************************************************************)
EXTENDS Integers, Sequences, FiniteSets, TLC

VARIABLES thePredicate, assertions, objects, pc, query, outcome, error, result,
          other, self

vars == <<thePredicate, assertions, objects, pc, query, outcome, error, result,
          other, self>>

\* ------------------------------------------------------------------ bounds
\* Integer payloads of constants and of the rows range over 0..MaxInt.
MaxInt == 2
\* Array constants (IN / BETWEEN arguments) have at most MaxArrayLen elements.
MaxArrayLen == 3
\* Compound predicates have at most MaxChildren subpredicates.
MaxChildren == 3
\* Object keys 1..MaxKey have been inserted in every table; MaxKey+1 never was.
MaxKey == 1
\* A compound nested in another compound has at most MaxNestedChildren subpredicates.
MaxNestedChildren == 2

\* ------------------------------------------------------------- QueryMixed
\* A QueryMixed is a record [t |-> m_type, v |-> payload of the active member].
\* Float, double and decimal payloads are counted in halves (3 is 1.5).
Null == [t |-> "Null", v |-> 0]
IntV(n) == [t |-> "Int", v |-> n]
BoolV(b) == [t |-> "Bool", v |-> b]
FloatV(h) == [t |-> "Float", v |-> h]
DoubleV(h) == [t |-> "Double", v |-> h]
StringV(s) == [t |-> "String", v |-> s]
BinaryV(s) == [t |-> "Binary", v |-> s]
TimestampV(n) == [t |-> "Timestamp", v |-> n]
DecimalV(h) == [t |-> "Decimal", v |-> h]
ObjectIdV(n) == [t |-> "ObjectId", v |-> n]
LinkV(cls, key) == [t |-> "Link", v |-> <<cls, key>>]
ArrayV(items) == [t |-> "LinkList", v |-> items]

\* QueryMixed::assign(r, move) for r another object than this: m_type is
\* taken from r, and switch_on_type constructs the member of that type from
\* r's.  switch_on_type has no case for type_Bool and runs into
\* REALM_COMPILER_HINT_UNREACHABLE(): the behaviour is undefined, and the
\* member of the new object is whatever indeterminate is.  Copying a vector
\* copies its elements; moving it takes them over.
RECURSIVE assign(_, _, _)
assign(r, move, indeterminate) ==
    CASE r.t = "Null" -> Null
      [] r.t = "Bool" -> BoolV(indeterminate)
      [] r.t = "LinkList" /\ ~move ->
            ArrayV([i \in DOMAIN r.v |-> assign(r.v[i], FALSE, indeterminate)])
      [] OTHER -> r

\* The object a value was moved from: a moved-from std::vector is empty,
\* the other members are copied by a move.

\* DataType(uint32_t(-1)): what get_type returns for null when REALM_ASSERT
\* is compiled out.
InvalidDataType == "DataType(-1)"

is_null(value) == value.t = "Null"

\* REALM_ASSERT(m_type != type_Null) terminates the process in builds with
\* assertions enabled.
get_type_asserts(value) == assertions /\ is_null(value)

get_type(value) == IF is_null(value) THEN InvalidDataType ELSE value.t

get_array(value) == value.v

\* Halves per unit of the float/double/decimal payloads.
Halves == 2

\* C++ conversion of a floating value to int64_t discards the fraction.
trunc(h) == IF h >= 0 THEN h \div Halves ELSE -((-h) \div Halves)

\* get<int64_t> that rounds a floating value to the nearest integer.
get_int64_rounded(value) ==
    CASE value.t = "Bool" -> [st |-> "ok", val |-> IntV(IF value.v THEN 1 ELSE 0)]
      [] value.t = "Int" -> [st |-> "ok", val |-> IntV(value.v)]
      [] value.t = "Float" -> [st |-> "ok", val |-> IntV((value.v + 1) \div Halves)]
      [] value.t = "Double" -> [st |-> "ok", val |-> IntV((value.v + 1) \div Halves)]
      [] OTHER -> [st |-> "unreachable", val |-> Null]

\* QueryMixed::get<int64_t>: "unreachable" stands for REALM_UNREACHABLE().
get_int64(value) ==
    CASE value.t = "Bool" -> [st |-> "ok", val |-> IntV(IF value.v THEN 1 ELSE 0)]
      [] value.t = "Int" -> [st |-> "ok", val |-> IntV(value.v)]
      [] value.t = "Float" -> [st |-> "ok", val |-> IntV(trunc(value.v))]
      [] value.t = "Double" -> [st |-> "ok", val |-> IntV(trunc(value.v))]
      [] OTHER -> [st |-> "unreachable", val |-> Null]

get_bool(value) ==
    CASE value.t = "Bool" -> [st |-> "ok", val |-> BoolV(value.v)]
      [] value.t = "Int" -> [st |-> "ok", val |-> BoolV(value.v # 0)]
      [] OTHER -> [st |-> "unreachable", val |-> Null]

get_float(value) ==
    CASE value.t = "Bool" -> [st |-> "ok", val |-> FloatV(IF value.v THEN Halves ELSE 0)]
      [] value.t = "Int" -> [st |-> "ok", val |-> FloatV(value.v * Halves)]
      [] value.t = "Float" -> [st |-> "ok", val |-> FloatV(value.v)]
      [] value.t = "Double" -> [st |-> "ok", val |-> FloatV(value.v)]
      [] OTHER -> [st |-> "unreachable", val |-> Null]

get_double(value) ==
    CASE value.t = "Bool" -> [st |-> "ok", val |-> DoubleV(IF value.v THEN Halves ELSE 0)]
      [] value.t = "Int" -> [st |-> "ok", val |-> DoubleV(value.v * Halves)]
      [] value.t = "Float" -> [st |-> "ok", val |-> DoubleV(value.v)]
      [] value.t = "Double" -> [st |-> "ok", val |-> DoubleV(value.v)]
      [] OTHER -> [st |-> "unreachable", val |-> Null]

\* Strings that Decimal128 parses, with the value they parse to (in halves).
DecimalStrings == {"1"}
decimal_of_string(s) == IF s = "1" THEN Halves ELSE 0
is_valid_str(s) == s \in DecimalStrings

get_decimal(value) ==
    CASE value.t = "Bool" -> [st |-> "ok", val |-> DecimalV(IF value.v THEN Halves ELSE 0)]
      [] value.t = "Int" -> [st |-> "ok", val |-> DecimalV(value.v * Halves)]
      [] value.t = "Float" -> [st |-> "ok", val |-> DecimalV(value.v)]
      [] value.t = "Double" -> [st |-> "ok", val |-> DecimalV(value.v)]
      [] value.t = "String" -> [st |-> "ok", val |-> DecimalV(decimal_of_string(value.v))]
      [] value.t = "Decimal" -> [st |-> "ok", val |-> DecimalV(value.v)]
      [] OTHER -> [st |-> "unreachable", val |-> Null]

\* get<StringData>, get<BinaryData>, get<Timestamp>, get<ObjectId> and
\* get<std::pair<StringData, ObjKey>>: REALM_ASSERT(get_type() == T).
get_exact(value, T) ==
    IF value.t = T THEN [st |-> "ok", val |-> value]
    ELSE [st |-> IF assertions THEN "assert" ELSE "garbage", val |-> Null]

\* -------------------------------------------------------------- the schema
\* RLMProperty: name, type, array, optional, objectClassName and
\* linkOriginPropertyName.  The schema is the input of the compilation; this
\* one has every property type the builder dispatches on.
Prop(n, t, a, o, c, lo) ==
    [name |-> n, type |-> t, array |-> a, optional |-> o, objectClassName |-> c,
     linkOriginPropertyName |-> lo]

NoProperty == Prop("", "None", FALSE, FALSE, "", "")

PersonProperties ==
    { Prop("age", "Int", FALSE, FALSE, "", ""),
      Prop("name", "String", FALSE, FALSE, "", ""),
      Prop("nick", "String", FALSE, TRUE, "", ""),
      Prop("ok", "Bool", FALSE, FALSE, "", ""),
      Prop("score", "Double", FALSE, FALSE, "", ""),
      Prop("ratio", "Float", FALSE, FALSE, "", ""),
      Prop("cost", "Decimal", FALSE, FALSE, "", ""),
      Prop("born", "Date", FALSE, FALSE, "", ""),
      Prop("oid", "ObjectId", FALSE, FALSE, "", ""),
      Prop("data", "Data", FALSE, TRUE, "", ""),
      Prop("tags", "String", TRUE, FALSE, "", ""),
      Prop("best", "Object", FALSE, TRUE, "Person", ""),
      Prop("friends", "Object", TRUE, FALSE, "Person", ""),
      Prop("dog", "Object", FALSE, TRUE, "Dog", "") }

DogProperties ==
    { Prop("age", "Int", FALSE, FALSE, "", ""),
      Prop("name", "String", FALSE, FALSE, "", ""),
      Prop("owners", "LinkingObjects", TRUE, FALSE, "Person", "dog") }

ClassNames == {"Person", "Dog"}

PropertiesOf(className) == IF className = "Person" THEN PersonProperties ELSE DogProperties

\* objectSchema[propertyName]: the property, or nil.
property_named(className, propertyName) ==
    IF \E p \in PropertiesOf(className) : p.name = propertyName
    THEN CHOOSE p \in PropertiesOf(className) : p.name = propertyName
    ELSE NoProperty

\* Table::get_column_key for the column of a property: its column type and
\* attributes.  A linking-objects property has no column of its own.
NoCol == [valid |-> FALSE, type |-> "None", nullable |-> FALSE, list |-> FALSE]

col_type_of(property) ==
    CASE property.type = "Object" -> IF property.array THEN "LinkList" ELSE "Link"
      [] property.type = "Date" -> "Timestamp"
      [] property.type = "Data" -> "Binary"
      [] OTHER -> property.type

get_column_key(property) ==
    IF property.type = "LinkingObjects" THEN NoCol
    ELSE [valid |-> TRUE, type |-> col_type_of(property), nullable |-> property.optional,
          list |-> property.array]

\* ------------------------------------------------------------- validation
type_is_numeric(type) == type \in {"Int", "Float", "Double", "Decimal"}

property_type_is_numeric(propertyType) == propertyType \in {"Int", "Float", "Double", "Decimal"}

\* std::numeric_limits<float>::max(), in halves, scaled to the payloads.
FloatMax == 8

\* The payload that stands for a NaN, which isnan tells.  It compares false with
\* every bound, as a NaN does.
NaN == 4 * FloatMax

\* validate_value for a value that is not null (the switch on the column type).
validate_non_null(value, col, object_type) ==
    CASE col.type = "String" -> value.t = "String"
      [] col.type = "Bool" -> value.t = "Bool" \/ (value.t = "Int" /\ (value.v = 0 \/ value.v = 1))
      [] col.type = "Timestamp" -> value.t = "Timestamp"
      [] col.type = "Int" -> value.t = "Int"
      [] col.type = "Float" ->
            IF value.t = "Double"
            THEN value.v = NaN \/ (value.v >= -FloatMax /\ value.v <= FloatMax)
            ELSE value.t = "Float" \/ value.t = "Int"
      [] col.type = "Double" -> value.t \in {"Float", "Double", "Int"}
      [] col.type = "Binary" -> value.t = "Binary"
      [] col.type \in {"LinkList", "Link"} -> value.t = "Link" /\ value.v[1] = object_type
      [] col.type = "ObjectId" -> value.t = "ObjectId"
      [] col.type = "Decimal" ->
            type_is_numeric(value.t) \/ (value.t = "String" /\ is_valid_str(value.v))
      [] OTHER -> FALSE

\* validate_value: "T", "F", or "assert" when get_type() is called on null in a
\* build with assertions.
validate_value(value, array, col, object_type) ==
    IF ~col.valid THEN "T"
    ELSE IF col.nullable /\ is_null(value) THEN "T"
    ELSE IF array /\ get_type_asserts(value) THEN "assert"
    ELSE IF array /\ get_type(value) = "LinkList"
         THEN IF \A i \in 1..Len(get_array(value)) :
                    LET item == get_array(value)[i] IN
                    IF col.nullable /\ is_null(item) THEN TRUE
                    ELSE IF is_null(item) THEN FALSE
                    ELSE validate_non_null(item, col, object_type)
              THEN "T" ELSE "F"
    ELSE IF is_null(value) THEN "F"
    ELSE IF validate_non_null(value, col, object_type) THEN "T" ELSE "F"

\* ------------------------------------------ outcomes of the builder's calls
\* A call on the builder ends normally ("ok"), by precondition_failure
\* ("error": a std::logic_error propagates to RLMPredicateToQuery), or by
\* terminating the process ("abort").  toks are the calls made on m_query.
Ok(toks) == [st |-> "ok", err |-> "", toks |-> toks]
Fail(err) == [st |-> "error", err |-> err, toks |-> <<>>]
Abort(why) == [st |-> "abort", err |-> why, toks |-> <<>>]

\* Sequencing of two calls: the second is not made when the first did not return.
Then(r1, r2) ==
    IF r1.st # "ok" THEN r1
    ELSE [st |-> r2.st, err |-> r2.err, toks |-> r1.toks \o r2.toks]

\* precondition(condition, message)
precondition(condition, err) == IF condition THEN Ok(<<>>) ELSE Fail(err)

\* Calls on realm::Query.
group == [k |-> "group"]
end_group == [k |-> "end_group"]
Or == [k |-> "Or"]
Not == [k |-> "Not"]
TrueExpression == [k |-> "True"]
FalseExpression == [k |-> "False"]

\* Operands of the expressions given to and_query: a resolved column, a
\* converted constant, realm::null, the count of a link column (optionally of
\* the linked rows matching a subquery), or an aggregate of a target column.
NoColumn == [table |-> "", links |-> <<>>, property |-> NoProperty, col |-> NoCol]
ColOperand(column) == [o |-> "col", c |-> column, val |-> Null, fn |-> "", sub |-> <<>>, tc |-> NoColumn]
ValOperand(val) == [o |-> "val", c |-> NoColumn, val |-> val, fn |-> "", sub |-> <<>>, tc |-> NoColumn]
NullOperand == [o |-> "null", c |-> NoColumn, val |-> Null, fn |-> "", sub |-> <<>>, tc |-> NoColumn]
ObjOperand(val) == [o |-> "obj", c |-> NoColumn, val |-> val, fn |-> "", sub |-> <<>>, tc |-> NoColumn]
CountOperand(column) == [o |-> "count", c |-> column, val |-> Null, fn |-> "count", sub |-> <<>>, tc |-> NoColumn]
SubCountOperand(column, sub) == [o |-> "subcount", c |-> column, val |-> Null, fn |-> "count", sub |-> sub, tc |-> NoColumn]
AggOperand(fn, column, target) == [o |-> "agg", c |-> column, val |-> Null, fn |-> fn, sub |-> <<>>, tc |-> target]
SizeOperand(column) == [o |-> "size", c |-> column, val |-> Null, fn |-> "size", sub |-> <<>>, tc |-> NoColumn]

\* lhs OP rhs; flags carries the case sensitivity of the string operators and
\* the CFStringCompareFlags of the custom comparators.
Cmp(op, lhs, rhs, flags) == [k |-> "cmp", op |-> op, l |-> lhs, r |-> rhs, flags |-> flags]
\* a && b on two expressions
AndExpr(a, b) == [k |-> "and", a |-> a, b |-> b]

\* ------------------------------------------------------ keypath resolution
\* A keypath is the sequence of its characters, where a property name (a
\* maximal run of characters other than '.' and '@') counts as one character.
find(keyPath, from, ch) ==
    IF \E i \in from..Len(keyPath) : keyPath[i] = ch
    THEN CHOOSE i \in from..Len(keyPath) :
            keyPath[i] = ch /\ \A j \in from..(i - 1) : keyPath[j] # ch
    ELSE Len(keyPath) + 1

contains(keyPath, ch) == \E i \in 1..Len(keyPath) : keyPath[i] = ch

\* The property of objectSchema named by the characters start..dot-1.
property_of_segment(className, keyPath, start, dot) ==
    IF dot - start = 1 THEN property_named(className, keyPath[start]) ELSE NoProperty

KeyPathOk(links, property, toMany) ==
    [st |-> "ok", err |-> "", links |-> links, property |-> property,
     containsToManyRelationship |-> toMany]
KeyPathFail(err) ==
    [st |-> "error", err |-> err, links |-> <<>>, property |-> NoProperty,
     containsToManyRelationship |-> FALSE]

RECURSIVE key_path_loop(_, _, _, _, _, _)
key_path_loop(className, keyPath, start, property, links, toMany) ==
    IF start = Len(keyPath) + 1 THEN KeyPathOk(links, property, toMany)
    ELSE
      LET dot == find(keyPath, start, ".")
          end == Len(keyPath) + 1
          segment(p) ==
              IF p = NoProperty THEN KeyPathFail("PropertyNotFound")
              ELSE IF dot # end
                   THEN IF ~(p.type = "Object" \/ p.type = "LinkingObjects")
                        THEN KeyPathFail("NotALink")
                        ELSE key_path_loop(p.objectClassName, keyPath, dot + 1, p,
                                           Append(links, p), toMany \/ p.array)
                   ELSE key_path_loop(className, keyPath, end, p, links, toMany \/ p.array)
      IN segment(property_of_segment(className, keyPath, start, dot))

key_path_from_string(className, keyPath) ==
    key_path_loop(className, keyPath, 1, NoProperty, <<>>, FALSE)

\* ColumnReference: the constructor binds the property to its column.
ColumnReference(table, property, links) ==
    [table |-> table, links |-> links, property |-> property, col |-> get_column_key(property)]

ColumnOk(column) == [st |-> "ok", err |-> "", column |-> column]
ColumnFail(err) == [st |-> "error", err |-> err, column |-> NoColumn]

\* column_reference_from_key_path without the two checks of isAggregate.
column_reference_from_key_path_unchecked(table, keyPathString, isAggregate) ==
    LET resolve(keyPath) ==
            IF keyPath.st # "ok" THEN ColumnFail(keyPath.err)
            ELSE ColumnOk(ColumnReference(table, keyPath.property, keyPath.links))
    IN resolve(key_path_from_string(table, keyPathString))

column_reference_from_key_path(table, keyPathString, isAggregate) ==
    LET resolve(keyPath) ==
            IF keyPath.st # "ok" THEN ColumnFail(keyPath.err)
            ELSE IF isAggregate /\ ~keyPath.containsToManyRelationship
                 THEN ColumnFail("AggregateOnNonCollection")
            ELSE IF ~isAggregate /\ keyPath.containsToManyRelationship
                 THEN ColumnFail("CollectionRequiresAggregate")
            ELSE ColumnOk(ColumnReference(table, keyPath.property, keyPath.links))
    IN resolve(key_path_from_string(table, keyPathString))

column_type(column) == column.property.type

has_links(column) == Len(column.links) > 0

has_any_to_many_links(column) == \E i \in 1..Len(column.links) : column.links[i].array

last_link_column(column) ==
    ColumnReference(column.table, column.links[Len(column.links)],
                    SubSeq(column.links, 1, Len(column.links) - 1))

\* The query passed to column_ignoring_links is on table.
column_ignoring_links(column, table) == ColumnReference(table, column.property, <<>>)

link_target_object_schema(column) == column.property.objectClassName

is_valid_for_column(value, column) ==
    validate_value(value, column.col.list, column.col, column.property.objectClassName)

\* ---------------------------------------------------- collection operations
key_path_contains_collection_operator(keyPath) == contains(keyPath, "@")

NoKey == <<"<null>">>

\* get_collection_operation_name_from_key_path: the operator name with the
\* two out-parameters.
get_collection_operation_name_from_key_path(keyPath) ==
    LET start == 1
        end == Len(keyPath) + 1
        at == find(keyPath, start, "@")
    IN IF ~(at # start /\ at # end /\ at + 1 # end /\ keyPath[at - 1] = ".")
       THEN [st |-> "error", err |-> "InvalidKeyPath", name |-> <<>>,
             leadingKeyPath |-> <<>>, trailingKey |-> NoKey]
       ELSE LET dot == find(keyPath, at + 1, ".") IN
            IF dot = end
            THEN [st |-> "ok", err |-> "", name |-> SubSeq(keyPath, at, end - 1),
                  leadingKeyPath |-> SubSeq(keyPath, 1, at - 2), trailingKey |-> NoKey]
            ELSE [st |-> "ok", err |-> "", name |-> SubSeq(keyPath, at, dot - 1),
                  leadingKeyPath |-> SubSeq(keyPath, 1, at - 2),
                  trailingKey |-> SubSeq(keyPath, dot + 1, end - 1)]

\* type_for_name that takes every other name for @count.
type_for_name_lenient(name) ==
    CASE name = <<"@", "min">> -> "Minimum"
      [] name = <<"@", "max">> -> "Maximum"
      [] name = <<"@", "sum">> -> "Sum"
      [] name = <<"@", "avg">> -> "Average"
      [] OTHER -> "Count"

type_for_name(name) ==
    CASE name = <<"@", "count">> -> "Count"
      [] name = <<"@", "min">> -> "Minimum"
      [] name = <<"@", "max">> -> "Maximum"
      [] name = <<"@", "sum">> -> "Sum"
      [] name = <<"@", "avg">> -> "Average"
      [] OTHER -> "Unsupported"

OperationOk(type, link_column, hasColumn, column) ==
    [st |-> "ok", err |-> "", type |-> type, link_column |-> link_column,
     hasColumn |-> hasColumn, column |-> column]
OperationFail(err) ==
    [st |-> "error", err |-> err, type |-> "", link_column |-> NoColumn,
     hasColumn |-> FALSE, column |-> NoColumn]

\* CollectionOperation without the precondition on the column of @count.
CollectionOperation_count_with_column(operationName, link_column, hasColumn, column) ==
    LET type == type_for_name(operationName) IN
    IF type = "Unsupported" THEN OperationFail("UnsupportedCollectionOperation")
    ELSE IF ~link_column.property.array THEN OperationFail("CollectionOperationOnNonList")
    ELSE IF type = "Count" THEN OperationOk(type, link_column, hasColumn, column)
    ELSE IF ~(hasColumn /\ property_type_is_numeric(column_type(column)))
         THEN OperationFail("AggregateOnNonNumericProperty")
    ELSE OperationOk(type, link_column, hasColumn, column)

\* The constructor of CollectionOperation with its preconditions.
CollectionOperation(operationName, link_column, hasColumn, column) ==
    LET type == type_for_name(operationName) IN
    IF type = "Unsupported" THEN OperationFail("UnsupportedCollectionOperation")
    ELSE IF ~link_column.property.array THEN OperationFail("CollectionOperationOnNonList")
    ELSE IF type = "Count"
         THEN IF hasColumn THEN OperationFail("CountHasNoProperties")
              ELSE OperationOk(type, link_column, hasColumn, column)
    ELSE IF ~(hasColumn /\ property_type_is_numeric(column_type(column)))
         THEN OperationFail("AggregateOnNonNumericProperty")
    ELSE OperationOk(type, link_column, hasColumn, column)

collection_operation_from_key_path(table, keyPath) ==
    LET with_column(parsed, linkColumn, column) ==
            IF column.st # "ok" THEN OperationFail(column.err)
            ELSE CollectionOperation(parsed.name, linkColumn.column, TRUE, column.column)
        with_link_column(parsed, linkColumn) ==
            IF linkColumn.st # "ok" THEN OperationFail(linkColumn.err)
            ELSE IF parsed.trailingKey = NoKey
                 THEN CollectionOperation(parsed.name, linkColumn.column, FALSE, NoColumn)
            ELSE IF contains(parsed.trailingKey, ".") THEN OperationFail("SingleLevelKey")
            ELSE with_column(parsed, linkColumn,
                             column_reference_from_key_path(
                                 table, parsed.leadingKeyPath \o <<".">> \o parsed.trailingKey,
                                 TRUE))
        with_name(parsed) ==
            IF parsed.st # "ok" THEN OperationFail(parsed.err)
            ELSE with_link_column(parsed,
                                  column_reference_from_key_path(table, parsed.leadingKeyPath,
                                                                 TRUE))
    IN with_name(get_collection_operation_name_from_key_path(keyPath))

\* ------------------------------------------------------------- constraints
\* ComparisonOptions is a bit mask: CaseInsensitive = 1, DiacriticInsensitive = 2.
CaseInsensitive == 1
DiacriticInsensitive == 2
is_set(o, opt) == (o \div opt) % 2 = 1

ComparisonOperators == {"<", "<=", ">", ">=", "==", "!="}

add_numeric_constraint(datatype, operatorType, lhs, rhs) ==
    IF operatorType \in {"<", "<=", ">", ">=", "==", "!="}
    THEN Ok(<<Cmp(operatorType, lhs, rhs, {})>>)
    ELSE Fail("OperatorNotSupportedForType")

\* add_bool_constraint with the operators of add_numeric_constraint.
add_bool_constraint_ordered(datatype, operatorType, lhs, rhs) ==
    IF operatorType \in {"<", "<=", ">", ">=", "==", "!="}
    THEN Ok(<<Cmp(operatorType, lhs, rhs, {})>>)
    ELSE Fail("OperatorNotSupportedForType")

add_bool_constraint(datatype, operatorType, lhs, rhs) ==
    IF operatorType \in {"==", "!="}
    THEN Ok(<<Cmp(operatorType, lhs, rhs, {})>>)
    ELSE Fail("OperatorNotSupportedForType")

\* add_substring_constraint without the test for an empty value.
add_substring_constraint_unguarded(value, condition) == Ok(<<condition>>)

\* add_substring_constraint whose overload for a column omits the size test.
add_substring_constraint_without_size(value, condition) ==
    CASE value.o = "null" -> Ok(<<FalseExpression>>)
      [] value.o = "col" -> Ok(<<condition>>)
      [] OTHER -> Ok(<<IF value.val.v # "" THEN condition ELSE FalseExpression>>)

\* The three overloads of add_substring_constraint, chosen by the kind of
\* the right-hand operand: realm::null, a constant, a column.
add_substring_constraint(value, condition) ==
    CASE value.o = "null" -> Ok(<<FalseExpression>>)
      [] value.o = "col" ->
            Ok(<<AndExpr(Cmp("!=", SizeOperand(value.c), ValOperand(IntV(0)), {}), condition)>>)
      [] OTHER -> Ok(<<IF value.val.v # "" THEN condition ELSE FalseExpression>>)

\* add_string_constraint without the call of Not() for a diacritic-insensitive !=.
add_string_constraint_no_not(operatorType, predicateOptions, column, value) ==
    LET caseSensitive == ~is_set(predicateOptions, CaseInsensitive)
        diacriticSensitive == ~is_set(predicateOptions, DiacriticInsensitive)
        cs == IF caseSensitive THEN {} ELSE {"CaseInsensitive"}
        make_constraint(comparator, cfFlags) == Cmp(comparator, column, value, cfFlags \cup cs)
    IN
    IF diacriticSensitive
    THEN CASE operatorType = "BEGINSWITH" ->
                add_substring_constraint(value, Cmp("BEGINSWITH", column, value, cs))
           [] operatorType = "ENDSWITH" ->
                add_substring_constraint(value, Cmp("ENDSWITH", column, value, cs))
           [] operatorType = "CONTAINS" ->
                add_substring_constraint(value, Cmp("CONTAINS", column, value, cs))
           [] operatorType = "==" -> Ok(<<Cmp("==", column, value, cs)>>)
           [] operatorType = "!=" -> Ok(<<Cmp("!=", column, value, cs)>>)
           [] operatorType = "LIKE" -> Ok(<<Cmp("LIKE", column, value, cs)>>)
           [] OTHER -> Fail("OperatorNotSupportedForString")
    ELSE CASE operatorType = "BEGINSWITH" ->
                add_substring_constraint(value,
                    make_constraint("ContainsSubstring", {"DiacriticInsensitive", "Anchored"}))
           [] operatorType = "ENDSWITH" ->
                add_substring_constraint(value,
                    make_constraint("ContainsSubstring",
                                    {"DiacriticInsensitive", "Anchored", "Backwards"}))
           [] operatorType = "CONTAINS" ->
                add_substring_constraint(value,
                    make_constraint("ContainsSubstring", {"DiacriticInsensitive"}))
           [] operatorType = "!=" ->
                Ok(<<make_constraint("Equal", {"DiacriticInsensitive"})>>)
           [] operatorType = "==" ->
                Ok(<<make_constraint("Equal", {"DiacriticInsensitive"})>>)
           [] operatorType = "LIKE" -> Fail("LikeWithDiacriticInsensitive")
           [] OTHER -> Fail("OperatorNotSupportedForString")

\* add_string_constraint(operatorType, predicateOptions, Columns<String>&& column, T value)
add_string_constraint(operatorType, predicateOptions, column, value) ==
    LET caseSensitive == ~is_set(predicateOptions, CaseInsensitive)
        diacriticSensitive == ~is_set(predicateOptions, DiacriticInsensitive)
        cs == IF caseSensitive THEN {} ELSE {"CaseInsensitive"}
        make_constraint(comparator, cfFlags) == Cmp(comparator, column, value, cfFlags \cup cs)
    IN
    IF diacriticSensitive
    THEN CASE operatorType = "BEGINSWITH" ->
                add_substring_constraint(value, Cmp("BEGINSWITH", column, value, cs))
           [] operatorType = "ENDSWITH" ->
                add_substring_constraint(value, Cmp("ENDSWITH", column, value, cs))
           [] operatorType = "CONTAINS" ->
                add_substring_constraint(value, Cmp("CONTAINS", column, value, cs))
           [] operatorType = "==" -> Ok(<<Cmp("==", column, value, cs)>>)
           [] operatorType = "!=" -> Ok(<<Cmp("!=", column, value, cs)>>)
           [] operatorType = "LIKE" -> Ok(<<Cmp("LIKE", column, value, cs)>>)
           [] OTHER -> Fail("OperatorNotSupportedForString")
    ELSE CASE operatorType = "BEGINSWITH" ->
                add_substring_constraint(value,
                    make_constraint("ContainsSubstring", {"DiacriticInsensitive", "Anchored"}))
           [] operatorType = "ENDSWITH" ->
                add_substring_constraint(value,
                    make_constraint("ContainsSubstring",
                                    {"DiacriticInsensitive", "Anchored", "Backwards"}))
           [] operatorType = "CONTAINS" ->
                add_substring_constraint(value,
                    make_constraint("ContainsSubstring", {"DiacriticInsensitive"}))
           [] operatorType = "!=" ->
                Ok(<<Not, make_constraint("Equal", {"DiacriticInsensitive"})>>)
           [] operatorType = "==" ->
                Ok(<<make_constraint("Equal", {"DiacriticInsensitive"})>>)
           [] operatorType = "LIKE" -> Fail("LikeWithDiacriticInsensitive")
           [] OTHER -> Fail("OperatorNotSupportedForString")

\* add_string_constraint(operatorType, predicateOptions, StringData value, Columns<String>&& column)
add_string_constraint_value_left(operatorType, predicateOptions, value, column) ==
    IF operatorType \in {"==", "!="}
    THEN add_string_constraint(operatorType, predicateOptions, column, value)
    ELSE Fail("OperatorNotSupportedForStringKeyPathRight")

\* add_binary_constraint(operatorType, column, BinaryData value); value is the
\* operand of the BinaryData (a null BinaryData has size 0).
add_binary_constraint_data(operatorType, column, value) ==
    IF has_links(column) THEN Fail("DataOverLink")
    ELSE LET c == ColOperand(column)
             size == IF value.o = "null" THEN 0 ELSE IF value.val.v = "" THEN 0 ELSE 1
             sub(condition) == Ok(<<IF size # 0 THEN condition ELSE FalseExpression>>)
         IN CASE operatorType = "BEGINSWITH" -> sub(Cmp("BEGINSWITH", c, value, {}))
              [] operatorType = "ENDSWITH" -> sub(Cmp("ENDSWITH", c, value, {}))
              [] operatorType = "CONTAINS" -> sub(Cmp("CONTAINS", c, value, {}))
              [] operatorType = "==" -> Ok(<<Cmp("==", c, value, {})>>)
              [] operatorType = "!=" -> Ok(<<Cmp("!=", c, value, {})>>)
              [] OTHER -> Fail("OperatorNotSupportedForBinary")

\* The overloads of add_binary_constraint; lhs and rhs are a column, a
\* QueryMixed or realm::null.
\* add_binary_constraint without the precondition on a keypath on the right.
add_binary_constraint_any_operator(operatorType, lhs, rhs) ==
    CASE lhs.o = "col" /\ rhs.o = "col" -> Fail("TwoDataProperties")
      [] lhs.o = "col" /\ rhs.o = "null" ->
            add_binary_constraint_data(operatorType, lhs.c, NullOperand)
      [] lhs.o = "col" /\ rhs.o = "val" ->
            LET g == get_exact(rhs.val, "Binary") IN
            IF g.st # "ok" THEN Abort(g.st)
            ELSE add_binary_constraint_data(operatorType, lhs.c, ValOperand(g.val))
      [] OTHER ->
            LET g == get_exact(lhs.val, "Binary") IN
            IF g.st # "ok" THEN Abort(g.st)
            ELSE add_binary_constraint_data(operatorType, rhs.c, ValOperand(g.val))

add_binary_constraint(operatorType, lhs, rhs) ==
    CASE lhs.o = "col" /\ rhs.o = "col" -> Fail("TwoDataProperties")
      [] lhs.o = "col" /\ rhs.o = "null" ->
            add_binary_constraint_data(operatorType, lhs.c, NullOperand)
      [] lhs.o = "col" /\ rhs.o = "val" ->
            LET g == get_exact(rhs.val, "Binary") IN
            IF g.st # "ok" THEN Abort(g.st)
            ELSE add_binary_constraint_data(operatorType, lhs.c, ValOperand(g.val))
      [] OTHER ->
            IF ~(operatorType = "==" \/ operatorType = "!=")
            THEN Fail("OperatorNotSupportedForBinaryKeyPathRight")
            ELSE LET g == get_exact(lhs.val, "Binary") IN
                 IF g.st # "ok" THEN Abort(g.st)
                 ELSE add_binary_constraint_data(operatorType, rhs.c, ValOperand(g.val))

\* is_valid for a table that still holds every object.
is_valid_always(object_type, obj_key) == TRUE

\* Table::is_valid(obj_key) on the table of the object type.
is_valid(object_type, obj_key) == obj_key \in objects[object_type]

\* add_link_constraint(operatorType, column, QueryMixed const& value)
add_link_constraint_value(operatorType, column, value) ==
    LET g == get_exact(value, "Link") IN
    IF g.st # "ok" THEN Abort(g.st)
    ELSE LET object_type == g.val.v[1]
             obj_key == g.val.v[2]
         IN IF ~is_valid(object_type, obj_key)
            THEN IF column.property.array
                 THEN add_bool_constraint("Object", operatorType, ColOperand(column), NullOperand)
                 ELSE IF operatorType = "=="
                      THEN Ok(<<FalseExpression>>)
                      ELSE Ok(<<TrueExpression>>)
            ELSE add_bool_constraint("Object", operatorType, ColOperand(column),
                                     ObjOperand(g.val))

\* The overloads of add_link_constraint.
add_link_constraint(operatorType, lhs, rhs) ==
    CASE lhs.o = "col" /\ rhs.o = "col" -> Fail("TwoListProperties")
      [] lhs.o = "col" /\ rhs.o = "null" ->
            add_bool_constraint("Object", operatorType, ColOperand(lhs.c), NullOperand)
      [] lhs.o = "col" /\ rhs.o = "val" -> add_link_constraint_value(operatorType, lhs.c, rhs.val)
      [] OTHER -> add_link_constraint_value(operatorType, rhs.c, lhs.val)

\* convert<RequestedType>(QueryMixed)
convert(RequestedType, value) ==
    CASE RequestedType = "Bool" -> get_bool(value)
      [] RequestedType = "Int" -> get_int64(value)
      [] RequestedType = "Float" -> get_float(value)
      [] RequestedType = "Double" -> get_double(value)
      [] RequestedType = "Decimal" -> get_decimal(value)
      [] RequestedType = "Timestamp" -> get_exact(value, "Timestamp")
      [] RequestedType = "String" -> get_exact(value, "String")
      [] RequestedType = "ObjectId" ->
            IF value.t = "ObjectId" THEN [st |-> "ok", val |-> value]
            ELSE IF value.t = "String" THEN [st |-> "ok", val |-> ObjectIdV(value.v)]
            ELSE [st |-> "throw", val |-> Null]
      [] OTHER -> [st |-> "unreachable", val |-> Null]

\* value_of_type<RequestedType>: realm::null stays null, a QueryMixed is
\* converted, a column is resolved.
value_of_type(RequestedType, x) ==
    CASE x.o = "val" ->
            LET g == convert(RequestedType, x.val) IN [st |-> g.st, operand |-> ValOperand(g.val)]
      [] OTHER -> [st |-> "ok", operand |-> x]

\* The outcome of evaluating the two converted arguments of a constraint.
arguments(RequestedType, lhs, rhs) ==
    LET evaluated(l, r) ==
            IF l.st = "ok" /\ r.st = "ok" THEN Ok(<<>>)
            ELSE IF "throw" \in {l.st, r.st} THEN Fail("CannotConvertToObjectId")
            ELSE Abort(IF l.st # "ok" THEN l.st ELSE r.st)
    IN evaluated(value_of_type(RequestedType, lhs), value_of_type(RequestedType, rhs))

\* do_add_constraint, and its (QueryMixed, realm::null) overload.
do_add_constraint(type, operatorType, predicateOptions, lhs, rhs) ==
    LET numeric(T) ==
            Then(arguments(T, lhs, rhs),
                 add_numeric_constraint(type, operatorType, value_of_type(T, lhs).operand,
                                        value_of_type(T, rhs).operand))
        boolean(T) ==
            Then(arguments(T, lhs, rhs),
                 add_bool_constraint(type, operatorType, value_of_type(T, lhs).operand,
                                     value_of_type(T, rhs).operand))
    IN
    IF lhs.o = "val" /\ rhs.o = "null" THEN Fail("MustCompareKeyPath")
    ELSE CASE type \in {"Bool", "ObjectId"} -> boolean(type)
           [] type \in {"Date", "Double", "Float", "Int", "Decimal"} ->
                numeric(IF type = "Date" THEN "Timestamp" ELSE type)
           [] type = "String" ->
                Then(arguments("String", lhs, rhs),
                     IF lhs.o = "col"
                     THEN add_string_constraint(operatorType, predicateOptions, lhs,
                                                value_of_type("String", rhs).operand)
                     ELSE add_string_constraint_value_left(
                              operatorType, predicateOptions,
                              value_of_type("String", lhs).operand, rhs))
           [] type = "Data" -> add_binary_constraint(operatorType, lhs, rhs)
           [] type \in {"Object", "LinkingObjects"} -> add_link_constraint(operatorType, lhs, rhs)
           [] OTHER -> Fail("ObjectTypeNotSupported")

is_nsnull(x) == x.o = "val" /\ is_null(x.val)

\* add_constraint: lhs and rhs are a column (ColOperand) or a QueryMixed (ValOperand).
add_constraint(type, operatorType, predicateOptions, lhs, rhs) ==
    IF is_nsnull(lhs) THEN Fail("NilOnLeft")
    ELSE do_add_constraint(type, operatorType, predicateOptions, lhs,
                           IF is_nsnull(rhs) THEN NullOperand ELSE rhs)

\* ---------------------------------------------- the query engine's side
\* realm::Query as the builder uses it: group(), end_group(), Or(), Not() and
\* and_query(expression) build a condition tree; validate() reports a
\* malformed tree.  The tree is evaluated here for one row at a time: a
\* frame is an open group with the value of its conditions so far.
Frame(pending_not) ==
    [has |-> FALSE, val |-> TRUE, state |-> "Default", acc |-> FALSE, pending_not |-> pending_not]

\* The rows of the Person table that conditions are evaluated on.
RowSpace ==
    [age : {IntV(n) : n \in 0..MaxInt},
     name : {StringV(""), StringV("a"), StringV("A")},
     nick : {Null, StringV("a")}]

fold_case(str) == IF str = "A" THEN "a" ELSE str

\* The conditions the evaluation covers: constants, and comparisons of a
\* column of the row (no link traversal) with a constant or null.
row_columns == {"age", "name", "nick"}

\* The substring conditions; a string of the rows has at most one character,
\* so a non-empty needle is found exactly in the equal string, and the empty
\* needle in every string.
SubstringOperators == {"BEGINSWITH", "ENDSWITH", "CONTAINS", "ContainsSubstring"}

RECURSIVE evaluable_expression(_)
evaluable_expression(e) ==
    CASE e.k \in {"True", "False"} -> TRUE
      [] e.k = "and" -> evaluable_expression(e.a) /\ evaluable_expression(e.b)
      [] e.k = "cmp" ->
            /\ e.l.o = "col" /\ e.l.c.table = "Person" /\ e.l.c.links = <<>>
            /\ e.l.c.property.name \in row_columns
            /\ e.r.o \in {"val", "null"}
            /\ e.op \in {"<", "<=", ">", ">=", "==", "!=", "Equal"} \cup SubstringOperators
            /\ e.r.o = "val" => \/ (e.r.val.t = "Int" /\ e.l.c.property.type = "Int"
                                    /\ e.op \notin {"Equal"} \cup SubstringOperators)
                                \/ (e.r.val.t = "String" /\ e.l.c.property.type = "String"
                                    /\ e.op \in {"==", "!=", "Equal"} \cup SubstringOperators)
            /\ e.r.o = "null" => e.op \in {"==", "!=", "Equal"}
      [] OTHER -> FALSE

compare(op, a, b) ==
    CASE op = "<" -> a < b
      [] op = "<=" -> a <= b
      [] op = ">" -> a > b
      [] op = ">=" -> a >= b
      [] op \in {"==", "Equal"} -> a = b
      [] op \in SubstringOperators -> b = "" \/ a = b
      [] OTHER -> a # b

RECURSIVE evaluate(_, _)
evaluate(e, row) ==
    CASE e.k = "True" -> TRUE
      [] e.k = "False" -> FALSE
      [] e.k = "and" -> evaluate(e.a, row) /\ evaluate(e.b, row)
      [] e.k = "cmp" /\ evaluable_expression(e) ->
            LET cell == row[e.l.c.property.name]
                rhs == IF e.r.o = "null" THEN Null ELSE e.r.val
            IN IF is_null(cell) \/ is_null(rhs)
               THEN e.op \in {"==", "!=", "Equal"} /\ compare(e.op, is_null(cell), is_null(rhs))
               ELSE IF cell.t = "Int" THEN compare(e.op, cell.v, rhs.v)
               ELSE IF "CaseInsensitive" \in e.flags
                    THEN compare(e.op, fold_case(cell.v), fold_case(rhs.v))
                    ELSE compare(e.op, cell.v, rhs.v)
      [] OTHER -> FALSE

frame_value(f) == IF f.state = "Default" THEN f.val ELSE f.acc \/ f.val

\* Query::add_node on the innermost group, followed by handle_pending_not.
RECURSIVE add_node(_, _)
add_node(stack, v) ==
    LET n == Len(stack)
        top == stack[n]
        added ==
            CASE top.state = "OrCondition" ->
                    [top EXCEPT !.acc = top.acc \/ top.val, !.val = v, !.has = TRUE,
                                !.state = "OrConditionChildren"]
              [] OTHER -> [top EXCEPT !.val = top.val /\ v, !.has = TRUE]
    IN IF n > 1 /\ top.pending_not
       THEN add_node(SubSeq(stack, 1, n - 1), ~frame_value(added))
       ELSE [stack EXCEPT ![n] = added]

Engine(stack, message) == [stack |-> stack, message |-> message]

\* One call on the query.
engine_step(eng, tok, row) ==
    LET stack == eng.stack
        n == Len(stack)
        top == stack[n]
    IN IF eng.message # "" THEN eng
       ELSE CASE tok.k = "group" -> Engine(Append(stack, Frame(FALSE)), "")
              [] tok.k = "Not" -> Engine(Append(stack, Frame(TRUE)), "")
              [] tok.k = "end_group" ->
                    IF n < 2 \/ top.pending_not THEN Engine(stack, "Unbalanced group")
                    ELSE IF ~top.has THEN Engine(stack, "Empty group")
                    ELSE IF top.state = "OrCondition"
                         THEN Engine(stack, "Missing right-hand side of OR")
                    ELSE Engine(add_node(SubSeq(stack, 1, n - 1), frame_value(top)), "")
              [] tok.k = "Or" ->
                    IF ~top.has THEN Engine(stack, "Missing left-hand side of OR")
                    ELSE IF top.state = "OrCondition"
                         THEN Engine(stack, "Missing right-hand side of OR")
                    ELSE Engine([stack EXCEPT ![n] = [top EXCEPT !.state = "OrCondition"]], "")
              [] OTHER -> Engine(add_node(stack, evaluate(tok, row)), "")

RECURSIVE engine_run(_, _, _, _)
engine_run(eng, toks, i, row) ==
    IF i > Len(toks) THEN eng
    ELSE engine_run(engine_step(eng, toks[i], row), toks, i + 1, row)

AnyRow == [age |-> IntV(0), name |-> StringV(""), nick |-> Null]

\* The state of the query after the calls toks.
engine_of(toks, row) == engine_run(Engine(<<Frame(FALSE)>>, ""), toks, 1, row)

\* Query::validate(): the empty string when the query is well formed.
validate(toks) ==
    LET message_of(eng) ==
            IF eng.message # "" THEN eng.message
            ELSE IF Len(eng.stack) > 1 THEN "Unbalanced group"
            ELSE IF eng.stack[1].state = "OrCondition" THEN "Missing right-hand side of OR"
            ELSE ""
    IN message_of(engine_of(toks, AnyRow))

evaluable(toks) ==
    \A i \in 1..Len(toks) :
        toks[i].k \in {"group", "end_group", "Or", "Not"} \/ evaluable_expression(toks[i])

\* Whether the validated query toks matches the row.
matches(toks, row) == frame_value(engine_of(toks, row).stack[1])

\* ------------------------------------------------------ the predicate AST
\* PredicateExpression and Predicate of RLMQueryBuilder.hpp.
ConstantValue(value) == [type |-> "ConstantValue", value |-> value]
\* An array written in the predicate itself ("{1, 2}").
Aggregate(value) == [type |-> "Aggregate", value |-> value]
KeyPath(key_path) == [type |-> "KeyPath", key_path |-> key_path]
Function(operand, function_name, argument) ==
    [type |-> "Function", operand |-> operand, function_name |-> function_name,
     argument |-> argument]
Subquery(key_path, subpredicate) ==
    [type |-> "Subquery", key_path |-> key_path, predicate |-> subpredicate]

\* The accessors return the default-constructed member of another kind of
\* expression.
key_path_of(e) == IF e.type \in {"KeyPath", "Subquery"} THEN e.key_path ELSE <<>>
value_of(e) == IF e.type \in {"ConstantValue", "Aggregate"} THEN e.value ELSE Null

\* The predicate as the builder's functions receive its constants: the
\* QueryMixed of an expression is passed by value, which copies it.
RECURSIVE passed_by_value(_, _)
passed_by_value(x, indeterminate) ==
    CASE "kind" \in DOMAIN x /\ x.kind = "Comparison" ->
            [x EXCEPT !.left = passed_by_value(@, indeterminate),
                      !.right = passed_by_value(@, indeterminate)]
      [] "kind" \in DOMAIN x /\ x.kind = "Compound" ->
            [x EXCEPT !.subpredicates =
                          [i \in DOMAIN @ |-> passed_by_value(@[i], indeterminate)]]
      [] "type" \in DOMAIN x /\ x.type \in {"ConstantValue", "Aggregate"} ->
            [x EXCEPT !.value = assign(@, FALSE, indeterminate)]
      [] "type" \in DOMAIN x /\ x.type = "Function" ->
            [x EXCEPT !.operand = passed_by_value(@, indeterminate)]
      [] "type" \in DOMAIN x /\ x.type = "Subquery" ->
            [x EXCEPT !.predicate = passed_by_value(@, indeterminate)]
      [] OTHER -> x

TruePredicate == [kind |-> "True"]
FalsePredicate == [kind |-> "False"]
Compound(compoundType, subpredicates) ==
    [kind |-> "Compound", compoundType |-> compoundType, subpredicates |-> subpredicates]
Comparison(left, right, modifier, operatorType, options) ==
    [kind |-> "Comparison", left |-> left, right |-> right, modifier |-> modifier,
     operator_type |-> operatorType, options |-> options]

\* ---------------------------------------------------- the builder: values
\* A precondition on the result of is_valid_for_column.
check_valid(v, err) == IF v = "assert" THEN Abort("assert") ELSE precondition(v = "T", err)

\* A precondition on value.get_type() == type.
check_type(value, type, err) ==
    IF get_type_asserts(value) THEN Abort("assert")
    ELSE precondition(get_type(value) = type, err)

\* validate_property_value that accepts every value.
validate_property_value_unchecked(column, value, err) == Ok(<<>>)

validate_property_value(column, value, err) ==
    Then(IF column.property.type = "LinkingObjects"
         THEN precondition(~is_null(value) /\ get_type(value) = "Link"
                           /\ value.v[1] = column.property.objectClassName, err)
         ELSE Ok(<<>>),
         check_valid(is_valid_for_column(value, column), err))

\* add_between_constraint_through_links that constrains the column through its links in the
\* outer query instead of in a subquery.
RECURSIVE add_between_constraint_through_links(_, _)
add_between_constraint_through_links(column, value) ==
    IF FALSE
    THEN LET link_column == last_link_column(column)
             target == link_target_object_schema(link_column)
             subquery == add_between_constraint_through_links(column_ignoring_links(column, target), value)
         IN IF subquery.st # "ok" THEN [subquery EXCEPT !.toks = <<>>]
            ELSE Ok(<<Cmp(">", SubCountOperand(link_column, subquery.toks),
                          ValOperand(IntV(0)), {})>>)
    ELSE
      Then(check_type(value, "LinkList", "BetweenRequiresArray"),
      Then(precondition(Len(get_array(value)) = 2, "BetweenRequiresArray"),
        LET array == get_array(value)
            first == is_valid_for_column(array[1], column)
            both == IF first # "T" THEN first ELSE is_valid_for_column(array[2], column)
            type == column_type(column)
        IN Then(check_valid(both, "BetweenArrayType"),
           Then(Ok(<<group>>),
           Then(add_constraint(type, ">=", 0, ColOperand(column), ValOperand(array[1])),
           Then(add_constraint(type, "<=", 0, ColOperand(column), ValOperand(array[2])),
                Ok(<<end_group>>)))))))

\* add_between_constraint; the sub-builder works on the target table of the
\* last link and its calls become the subquery of the count.
RECURSIVE add_between_constraint(_, _)
add_between_constraint(column, value) ==
    IF has_any_to_many_links(column)
    THEN LET link_column == last_link_column(column)
             target == link_target_object_schema(link_column)
             subquery == add_between_constraint(column_ignoring_links(column, target), value)
         IN IF subquery.st # "ok" THEN [subquery EXCEPT !.toks = <<>>]
            ELSE Ok(<<Cmp(">", SubCountOperand(link_column, subquery.toks),
                          ValOperand(IntV(0)), {})>>)
    ELSE
      Then(check_type(value, "LinkList", "BetweenRequiresArray"),
      Then(precondition(Len(get_array(value)) = 2, "BetweenRequiresArray"),
        LET array == get_array(value)
            first == is_valid_for_column(array[1], column)
            both == IF first # "T" THEN first ELSE is_valid_for_column(array[2], column)
            type == column_type(column)
        IN Then(check_valid(both, "BetweenArrayType"),
           Then(Ok(<<group>>),
           Then(add_constraint(type, ">=", 0, ColOperand(column), ValOperand(array[1])),
           Then(add_constraint(type, "<=", 0, ColOperand(column), ValOperand(array[2])),
                Ok(<<end_group>>)))))))

\* precondition(type_is_numeric(value.get_type()), ...)
check_type_numeric(value) ==
    IF get_type_asserts(value) THEN Abort("assert")
    ELSE precondition(type_is_numeric(get_type(value)), "AggregateComparedWithNonNumeric")

\* CollectionOperation::validate_comparison(QueryMixed)
validate_comparison_value(operation, value) ==
    IF operation.type \in {"Count", "Average"}
    THEN check_type_numeric(value)
    ELSE check_valid(is_valid_for_column(value, operation.column), "AggregateComparedWithType")

\* CollectionOperation::validate_comparison(const ColumnReference&)
validate_comparison_column(operation, column) ==
    precondition(property_type_is_numeric(column_type(column)), "AggregateComparedWithNonNumeric")

OperationOperand ==
    [o |-> "operation", c |-> NoColumn, val |-> Null, fn |-> "", sub |-> <<>>, tc |-> NoColumn]

function_of(type) ==
    CASE type = "Minimum" -> "min"
      [] type = "Maximum" -> "max"
      [] type = "Sum" -> "sum"
      [] OTHER -> "average"

\* value_of_type_with_collection_operation<Requested, OperationType>
value_of_type_with_collection_operation(Requested, operation, x) ==
    IF x.o = "operation"
    THEN [st |-> "ok",
          operand |-> IF operation.type = "Count" THEN CountOperand(operation.link_column)
                      ELSE AggOperand(function_of(operation.type), operation.link_column,
                                      operation.column)]
    ELSE value_of_type(Requested, x)

\* Both overloads of add_collection_operation_constraint.
add_collection_operation_constraint(operatorType, operation, lhs, rhs) ==
    LET propertyType == IF operation.type = "Count" THEN "Int" ELSE column_type(operation.column)
        constraint(l, r) ==
            IF ~property_type_is_numeric(propertyType)
            THEN IF assertions THEN Abort("assert") ELSE Ok(<<>>)
            ELSE IF l.st # "ok" THEN Abort(l.st)
            ELSE IF r.st # "ok" THEN Abort(r.st)
            ELSE add_numeric_constraint(propertyType, operatorType, l.operand, r.operand)
    IN constraint(value_of_type_with_collection_operation(propertyType, operation, lhs),
                  value_of_type_with_collection_operation(propertyType, operation, rhs))

apply_collection_operator_expression(desc, keyPath, value, pred) ==
    LET keyPathOnLeft == pred.left.type = "KeyPath"
        compare_with(operation) ==
            IF operation.st # "ok" THEN Fail(operation.err)
            ELSE Then(validate_comparison_value(operation, value),
                      add_collection_operation_constraint(
                          pred.operator_type, operation,
                          IF keyPathOnLeft THEN OperationOperand ELSE ValOperand(value),
                          IF keyPathOnLeft THEN ValOperand(value) ELSE OperationOperand))
    IN compare_with(collection_operation_from_key_path(desc, keyPath))

\* The body of the loop over the items of "key.path IN collection".
RECURSIVE in_items(_, _, _, _)
in_items(column, items, i, options) ==
    IF i > Len(items) THEN Ok(<<>>)
    ELSE Then(IF i > 1 THEN Ok(<<Or>>) ELSE Ok(<<>>),
         Then(validate_property_value(column, items[i], "ExpectedObjectOfTypeInIN"),
         Then(add_constraint(column_type(column), "==", options, ColOperand(column),
                             ValOperand(items[i])),
              in_items(column, items, i + 1, options))))

apply_value_expression(desc, keyPath, value, pred) ==
    IF key_path_contains_collection_operator(keyPath)
    THEN apply_collection_operator_expression(desc, keyPath, value, pred)
    ELSE
      LET isAny == pred.modifier = "Any"
          keyPathOnLeft == pred.left.type = "KeyPath"
          with_column(resolved, column) ==
              IF resolved.st # "ok" THEN Fail(resolved.err)
              ELSE IF pred.operator_type = "BETWEEN" THEN add_between_constraint(column, value)
              ELSE IF pred.operator_type = "IN"
                   THEN Then(check_type(value, "LinkList", "InRequiresArray"),
                        Then(Ok(<<group>>),
                        Then(in_items(column, get_array(value), 1, pred.options),
                        Then(IF Len(get_array(value)) = 0
                             THEN Ok(<<FalseExpression>>) ELSE Ok(<<>>),
                             Ok(<<end_group>>)))))
              ELSE Then(validate_property_value(column, value, "ExpectedObjectOfType"),
                        add_constraint(column_type(column), pred.operator_type, pred.options,
                            IF keyPathOnLeft THEN ColOperand(column) ELSE ValOperand(value),
                            IF keyPathOnLeft THEN ValOperand(value) ELSE ColOperand(column)))
          with_reference(resolved) == with_column(resolved, resolved.column)
      IN with_reference(column_reference_from_key_path(desc, keyPath, isAny))

\* apply_column_expression without the comparison of the two column types.
apply_column_expression_any_types(desc, leftKeyPath, rightKeyPath, pred) ==
    LET left_op == key_path_contains_collection_operator(leftKeyPath)
        right_op == key_path_contains_collection_operator(rightKeyPath)
    IN
    IF left_op /\ right_op THEN Fail("AggregateComparedWithAggregate")
    ELSE IF left_op \/ right_op
    THEN \* the operation is resolved first when it is on the left, second when on the right
         LET compare_operation(operation, column) ==
                 IF left_op /\ operation.st # "ok" THEN Fail(operation.err)
                 ELSE IF column.st # "ok" THEN Fail(column.err)
                 ELSE IF operation.st # "ok" THEN Fail(operation.err)
                 ELSE Then(validate_comparison_column(operation, column.column),
                           add_collection_operation_constraint(
                               pred.operator_type, operation,
                               IF left_op THEN OperationOperand ELSE ColOperand(column.column),
                               IF left_op THEN ColOperand(column.column) ELSE OperationOperand))
         IN compare_operation(
                collection_operation_from_key_path(
                    desc, IF left_op THEN leftKeyPath ELSE rightKeyPath),
                column_reference_from_key_path(
                    desc, IF left_op THEN rightKeyPath ELSE leftKeyPath, FALSE))
    ELSE LET compare_columns(left, right) ==
                 IF left.st # "ok" THEN Fail(left.err)
                 ELSE IF right.st # "ok" THEN Fail(right.err)
                 ELSE add_constraint(column_type(left.column), pred.operator_type,
                                     pred.options, ColOperand(left.column),
                                     ColOperand(right.column))
         IN compare_columns(column_reference_from_key_path(desc, leftKeyPath, FALSE),
                            column_reference_from_key_path(desc, rightKeyPath, FALSE))

\* apply_column_expression without validate_comparison on the other column.
apply_column_expression_unvalidated(desc, leftKeyPath, rightKeyPath, pred) ==
    LET left_op == key_path_contains_collection_operator(leftKeyPath)
        right_op == key_path_contains_collection_operator(rightKeyPath)
    IN
    IF left_op /\ right_op THEN Fail("AggregateComparedWithAggregate")
    ELSE IF left_op \/ right_op
    THEN LET compare_operation(operation, column) ==
                 IF left_op /\ operation.st # "ok" THEN Fail(operation.err)
                 ELSE IF column.st # "ok" THEN Fail(column.err)
                 ELSE IF operation.st # "ok" THEN Fail(operation.err)
                 ELSE add_collection_operation_constraint(
                          pred.operator_type, operation,
                          IF left_op THEN OperationOperand ELSE ColOperand(column.column),
                          IF left_op THEN ColOperand(column.column) ELSE OperationOperand)
         IN compare_operation(
                collection_operation_from_key_path(
                    desc, IF left_op THEN leftKeyPath ELSE rightKeyPath),
                column_reference_from_key_path(
                    desc, IF left_op THEN rightKeyPath ELSE leftKeyPath, FALSE))
    ELSE LET compare_columns(left, right) ==
                 IF left.st # "ok" THEN Fail(left.err)
                 ELSE IF right.st # "ok" THEN Fail(right.err)
                 ELSE Then(precondition(column_type(left.column) = column_type(right.column),
                                        "ComparisonBetweenTypes"),
                           add_constraint(column_type(left.column), pred.operator_type,
                                          pred.options, ColOperand(left.column),
                                          ColOperand(right.column)))
         IN compare_columns(column_reference_from_key_path(desc, leftKeyPath, FALSE),
                            column_reference_from_key_path(desc, rightKeyPath, FALSE))

apply_column_expression(desc, leftKeyPath, rightKeyPath, pred) ==
    LET left_op == key_path_contains_collection_operator(leftKeyPath)
        right_op == key_path_contains_collection_operator(rightKeyPath)
    IN
    IF left_op /\ right_op THEN Fail("AggregateComparedWithAggregate")
    ELSE IF left_op \/ right_op
    THEN \* the operation is resolved first when it is on the left, second when on the right
         LET compare_operation(operation, column) ==
                 IF left_op /\ operation.st # "ok" THEN Fail(operation.err)
                 ELSE IF column.st # "ok" THEN Fail(column.err)
                 ELSE IF operation.st # "ok" THEN Fail(operation.err)
                 ELSE Then(validate_comparison_column(operation, column.column),
                           add_collection_operation_constraint(
                               pred.operator_type, operation,
                               IF left_op THEN OperationOperand ELSE ColOperand(column.column),
                               IF left_op THEN ColOperand(column.column) ELSE OperationOperand))
         IN compare_operation(
                collection_operation_from_key_path(
                    desc, IF left_op THEN leftKeyPath ELSE rightKeyPath),
                column_reference_from_key_path(
                    desc, IF left_op THEN rightKeyPath ELSE leftKeyPath, FALSE))
    ELSE LET compare_columns(left, right) ==
                 IF left.st # "ok" THEN Fail(left.err)
                 ELSE IF right.st # "ok" THEN Fail(right.err)
                 ELSE Then(precondition(column_type(left.column) = column_type(right.column),
                                        "ComparisonBetweenTypes"),
                           add_constraint(column_type(left.column), pred.operator_type,
                                          pred.options, ColOperand(left.column),
                                          ColOperand(right.column)))
         IN compare_columns(column_reference_from_key_path(desc, leftKeyPath, FALSE),
                            column_reference_from_key_path(desc, rightKeyPath, FALSE))

\* ------------------------------------------------ the builder: predicates
RECURSIVE apply_predicate(_, _)
RECURSIVE apply_subpredicates(_, _, _, _)

\* apply_subpredicates without the call of Or() between the subpredicates.
RECURSIVE apply_subpredicates_no_or(_, _, _, _)
apply_subpredicates_no_or(subpredicates, i, objectSchema, joined) ==
    IF i > Len(subpredicates) THEN Ok(<<>>)
    ELSE Then(apply_predicate(subpredicates[i], objectSchema),
              apply_subpredicates_no_or(subpredicates, i + 1, objectSchema, joined))

\* The loops over the subpredicates of an AND (joined = FALSE) and of an OR
\* (joined = TRUE: Or() before every subpredicate but the first).
apply_subpredicates(subpredicates, i, objectSchema, joined) ==
    IF i > Len(subpredicates) THEN Ok(<<>>)
    ELSE Then(IF joined /\ i > 1 THEN Ok(<<Or>>) ELSE Ok(<<>>),
         Then(apply_predicate(subpredicates[i], objectSchema),
              apply_subpredicates(subpredicates, i + 1, objectSchema, joined)))

apply_subquery_count_expression(objectSchema, subqueryExpression, operatorType, right) ==
    Then(IF right.type = "ConstantValue"
         THEN check_type(right.value, "Int", "SubqueryCountConstantInteger")
         ELSE Fail("SubqueryCountConstantInteger"),
      LET value == get_int64(right.value).val
          count_of(collectionColumn, subquery, validateMessage) ==
              IF subquery.st # "ok" THEN [subquery EXCEPT !.toks = <<>>]
              ELSE Then(precondition(validateMessage = "", validateMessage),
                        add_numeric_constraint("Int", operatorType,
                            SubCountOperand(collectionColumn.column, subquery.toks),
                            ValOperand(value)))
          build(collectionColumn, subquery) ==
              count_of(collectionColumn, subquery, validate(subquery.toks))
          on_column(collectionColumn, collectionMemberObjectSchema) ==
              IF collectionColumn.st # "ok" THEN Fail(collectionColumn.err)
              ELSE IF collectionMemberObjectSchema \notin ClassNames THEN Abort("no table")
              ELSE build(collectionColumn,
                         apply_predicate(subqueryExpression.predicate,
                                         collectionMemberObjectSchema))
          on_reference(collectionColumn) ==
              on_column(collectionColumn, collectionColumn.column.property.objectClassName)
      IN on_reference(column_reference_from_key_path(
                          objectSchema, key_path_of(subqueryExpression), TRUE)))

apply_function_subquery_expression(objectSchema, functionExpression, operatorType, right) ==
    Then(precondition(functionExpression.function_name = "valueForKeyPath:",
                      "FunctionNotSupportedOnSubquery"),
    Then(precondition(key_path_of(functionExpression.argument) = <<"@", "count">>,
                      "SubqueryNotFollowedByCount"),
         apply_subquery_count_expression(objectSchema, functionExpression.operand,
                                         operatorType, right)))

apply_function_expression(objectSchema, functionExpression, operatorType, right) ==
    Then(precondition(functionExpression.operand.type = "Subquery", "FunctionNotSupported"),
         apply_function_subquery_expression(objectSchema, functionExpression, operatorType,
                                            right))

\* apply_comparison without the check of the operands of ANY.
apply_comparison_any_operands(predicate, objectSchema) ==
    LET type == predicate.operator_type
        exp1 == predicate.left.type
        exp2 == predicate.right.type
        keyPathIn == exp1 = "KeyPath" /\ exp2 \in {"Aggregate", "ConstantValue"}
        valueIn == type = "IN" /\ exp1 = "ConstantValue" /\ exp2 = "KeyPath"
        between_or_in == type = "BETWEEN" \/ type = "IN"
        rewritten ==
            IF between_or_in /\ ~keyPathIn /\ valueIn
            THEN Comparison(predicate.right, predicate.left, "Any", "==", 0)
            ELSE predicate
        exp1Type == IF between_or_in /\ ~keyPathIn /\ valueIn THEN "KeyPath" ELSE exp1
        exp2Type == IF between_or_in /\ (keyPathIn \/ valueIn) THEN "ConstantValue" ELSE exp2
    IN
    Then(IF between_or_in /\ ~keyPathIn /\ ~valueIn
         THEN IF type = "BETWEEN" THEN Fail("BetweenOperands") ELSE Fail("InOperands")
         ELSE Ok(<<>>),
         IF exp1Type = "KeyPath" /\ exp2Type = "KeyPath"
         THEN apply_column_expression(objectSchema, key_path_of(rewritten.left),
                                      key_path_of(rewritten.right), rewritten)
         ELSE IF {exp1Type, exp2Type} = {"KeyPath", "ConstantValue"}
         THEN apply_value_expression(
                  objectSchema,
                  key_path_of(IF exp1Type = "KeyPath" THEN rewritten.left ELSE rewritten.right),
                  value_of(IF exp1Type = "KeyPath" THEN rewritten.right ELSE rewritten.left),
                  rewritten)
         ELSE IF exp1Type = "Function"
         THEN apply_function_expression(objectSchema, rewritten.left, type, rewritten.right)
         ELSE IF exp1Type = "Subquery" THEN Fail("SubqueryOnlyWithCount")
         ELSE Fail("MustCompareKeyPath"))

\* apply_comparison whose rewriting of constant IN keypath keeps the options.
apply_comparison_keeping_options(predicate, objectSchema) ==
    LET type == predicate.operator_type
        exp1 == predicate.left.type
        exp2 == predicate.right.type
        keyPathIn == exp1 = "KeyPath" /\ exp2 \in {"Aggregate", "ConstantValue"}
        valueIn == type = "IN" /\ exp1 = "ConstantValue" /\ exp2 = "KeyPath"
        between_or_in == type = "BETWEEN" \/ type = "IN"
        rewritten ==
            IF between_or_in /\ ~keyPathIn /\ valueIn
            THEN Comparison(predicate.right, predicate.left, "Any", "==", predicate.options)
            ELSE predicate
        exp1Type == IF between_or_in /\ ~keyPathIn /\ valueIn THEN "KeyPath" ELSE exp1
        exp2Type == IF between_or_in /\ (keyPathIn \/ valueIn) THEN "ConstantValue" ELSE exp2
    IN
    Then(IF predicate.modifier = "Any"
         THEN precondition(exp1 = "KeyPath" /\ exp2 = "ConstantValue", "AnyModifierOperands")
         ELSE Ok(<<>>),
    Then(IF between_or_in /\ ~keyPathIn /\ ~valueIn
         THEN IF type = "BETWEEN" THEN Fail("BetweenOperands") ELSE Fail("InOperands")
         ELSE Ok(<<>>),
         IF exp1Type = "KeyPath" /\ exp2Type = "KeyPath"
         THEN apply_column_expression(objectSchema, key_path_of(rewritten.left),
                                      key_path_of(rewritten.right), rewritten)
         ELSE IF {exp1Type, exp2Type} = {"KeyPath", "ConstantValue"}
         THEN apply_value_expression(
                  objectSchema,
                  key_path_of(IF exp1Type = "KeyPath" THEN rewritten.left ELSE rewritten.right),
                  value_of(IF exp1Type = "KeyPath" THEN rewritten.right ELSE rewritten.left),
                  rewritten)
         ELSE IF exp1Type = "Function"
         THEN apply_function_expression(objectSchema, rewritten.left, type, rewritten.right)
         ELSE IF exp1Type = "Subquery" THEN Fail("SubqueryOnlyWithCount")
         ELSE Fail("MustCompareKeyPath")))

\* The Comparison case of apply_predicate after the ALL check.
apply_comparison(predicate, objectSchema) ==
    LET type == predicate.operator_type
        exp1 == predicate.left.type
        exp2 == predicate.right.type
        keyPathIn == exp1 = "KeyPath" /\ exp2 \in {"Aggregate", "ConstantValue"}
        valueIn == type = "IN" /\ exp1 = "ConstantValue" /\ exp2 = "KeyPath"
        between_or_in == type = "BETWEEN" \/ type = "IN"
        rewritten ==
            IF between_or_in /\ ~keyPathIn /\ valueIn
            THEN Comparison(predicate.right, predicate.left, "Any", "==", 0)
            ELSE predicate
        exp1Type == IF between_or_in /\ ~keyPathIn /\ valueIn THEN "KeyPath" ELSE exp1
        exp2Type == IF between_or_in /\ (keyPathIn \/ valueIn) THEN "ConstantValue" ELSE exp2
    IN
    Then(IF predicate.modifier = "Any"
         THEN precondition(exp1 = "KeyPath" /\ exp2 = "ConstantValue", "AnyModifierOperands")
         ELSE Ok(<<>>),
    Then(IF between_or_in /\ ~keyPathIn /\ ~valueIn
         THEN IF type = "BETWEEN" THEN Fail("BetweenOperands") ELSE Fail("InOperands")
         ELSE Ok(<<>>),
         IF exp1Type = "KeyPath" /\ exp2Type = "KeyPath"
         THEN apply_column_expression(objectSchema, key_path_of(rewritten.left),
                                      key_path_of(rewritten.right), rewritten)
         ELSE IF {exp1Type, exp2Type} = {"KeyPath", "ConstantValue"}
         THEN apply_value_expression(
                  objectSchema,
                  key_path_of(IF exp1Type = "KeyPath" THEN rewritten.left ELSE rewritten.right),
                  value_of(IF exp1Type = "KeyPath" THEN rewritten.right ELSE rewritten.left),
                  rewritten)
         ELSE IF exp1Type = "Function"
         THEN apply_function_expression(objectSchema, rewritten.left, type, rewritten.right)
         ELSE IF exp1Type = "Subquery" THEN Fail("SubqueryOnlyWithCount")
         ELSE Fail("MustCompareKeyPath")))

\* case CompoundPredicateType::And
apply_compound_and(predicate, objectSchema) ==
    IF Len(predicate.subpredicates) = 0 THEN Ok(<<TrueExpression>>)
    ELSE Then(Ok(<<group>>),
         Then(apply_subpredicates(predicate.subpredicates, 1, objectSchema, FALSE),
              Ok(<<end_group>>)))

\* apply_compound_or with the constant of the empty AND group.
apply_compound_or_true(predicate, objectSchema) ==
    IF Len(predicate.subpredicates) = 0 THEN Ok(<<TrueExpression>>)
    ELSE Then(Ok(<<group>>),
         Then(apply_subpredicates(predicate.subpredicates, 1, objectSchema, TRUE),
              Ok(<<end_group>>)))

\* case CompoundPredicateType::Or
apply_compound_or(predicate, objectSchema) ==
    IF Len(predicate.subpredicates) = 0 THEN Ok(<<FalseExpression>>)
    ELSE Then(Ok(<<group>>),
         Then(apply_subpredicates(predicate.subpredicates, 1, objectSchema, TRUE),
              Ok(<<end_group>>)))

\* apply_compound_not that calls Not() after the subpredicate is applied.
apply_compound_not_after(predicate, objectSchema) ==
    Then(apply_predicate(predicate.subpredicates[1], objectSchema), Ok(<<Not>>))

\* case CompoundPredicateType::Not
apply_compound_not(predicate, objectSchema) ==
    Then(Ok(<<Not>>), apply_predicate(predicate.subpredicates[1], objectSchema))

\* apply_predicate without the check of the ALL modifier.
apply_predicate_any_modifier(predicate, objectSchema) ==
    CASE predicate.kind = "Compound" ->
            CASE predicate.compoundType = "And" -> apply_compound_and(predicate, objectSchema)
              [] predicate.compoundType = "Or" -> apply_compound_or(predicate, objectSchema)
              [] predicate.compoundType = "Not" -> apply_compound_not(predicate, objectSchema)
              [] OTHER -> Fail("CompoundTypeNotSupported")
      [] predicate.kind = "Comparison" -> apply_comparison(predicate, objectSchema)
      [] predicate.kind = "True" -> Ok(<<TrueExpression>>)
      [] predicate.kind = "False" -> Ok(<<FalseExpression>>)
      [] OTHER -> Fail("PredicateKindNotSupported")

apply_predicate(predicate, objectSchema) ==
    CASE predicate.kind = "Compound" ->
            CASE predicate.compoundType = "And" -> apply_compound_and(predicate, objectSchema)
              [] predicate.compoundType = "Or" -> apply_compound_or(predicate, objectSchema)
              [] predicate.compoundType = "Not" -> apply_compound_not(predicate, objectSchema)
              [] OTHER -> Fail("CompoundTypeNotSupported")
      [] predicate.kind = "Comparison" ->
            Then(precondition(predicate.modifier # "All", "AllModifier"),
                 apply_comparison(predicate, objectSchema))
      [] predicate.kind = "True" -> Ok(<<TrueExpression>>)
      [] predicate.kind = "False" -> Ok(<<FalseExpression>>)
      [] OTHER -> Fail("PredicateKindNotSupported")

\* ------------------------------------------------------- the state machine
\* RLMPredicateToQuery runs apply_predicate on a fresh query of the table of
\* objectSchema, validates the query and returns it.  pc is the position in
\* that function; query holds the calls made on the local query and result
\* the query handed to the caller.
NoQuery == <<[k |-> "no query"]>>

AllKeys == 1..MaxKey

SeqsUpTo(S, n) == UNION { [1..m -> S] : m \in 0..n }

\* The comparisons used as the leaves of compound predicates: one term, a
\* negated term, a group, and a comparison that is rejected.
LeafPredicates ==
    { Comparison(KeyPath(<<"age">>), ConstantValue(IntV(1)), "Direct", ">", 0),
      Comparison(KeyPath(<<"name">>), ConstantValue(StringV("a")), "Direct", "!=",
                 DiacriticInsensitive),
      Comparison(KeyPath(<<"age">>), ConstantValue(ArrayV(<<IntV(0), IntV(2)>>)), "Direct",
                 "IN", 0) }

RejectedLeaf == Comparison(KeyPath(<<"nosuch">>), ConstantValue(IntV(1)), "Direct", "==", 0)

CompoundsOf(S, n) ==
    { Compound(t, subs) : t \in {"And", "Or"}, subs \in SeqsUpTo(S, n) }
        \cup { Compound("Not", <<p>>) : p \in S }

\* Compounds of compounds: a nested compound beside a sibling, and a negated
\* compound.
NestedCompounds(nested) ==
    { Compound(t, subs) :
        t \in {"And", "Or"},
        subs \in { <<p, q>> : p \in nested, q \in {TruePredicate, RejectedLeaf} }
                 \cup { <<q, p>> : p \in nested, q \in {TruePredicate, RejectedLeaf} } }
        \cup { Compound("Not", <<p>>) : p \in nested }

CompoundPredicates ==
    {TruePredicate, FalsePredicate}
        \cup LeafPredicates
        \cup CompoundsOf(LeafPredicates \cup {RejectedLeaf}, MaxChildren)
        \cup NestedCompounds(CompoundsOf(LeafPredicates, MaxNestedChildren))

InitWith(predicates) ==
    /\ thePredicate \in predicates
    /\ assertions \in BOOLEAN
    /\ objects = [c \in ClassNames |-> AllKeys]
    /\ pc = "start"
    /\ query = <<>>
    /\ outcome = "none"
    /\ error = ""
    /\ result = NoQuery
    /\ other = Null
    /\ self = Null

\* An object of the group is deleted before the predicate is compiled.
DeleteObject ==
    /\ pc = "start"
    /\ \E c \in ClassNames, key \in AllKeys :
          /\ key \in objects[c]
          /\ objects' = [objects EXCEPT ![c] = @ \ {key}]
    /\ UNCHANGED <<thePredicate, assertions, pc, query, outcome, error, result, other, self>>

\* QueryBuilder(query, group, schema).apply_predicate(predicate, objectSchema)
ApplyPredicate ==
    /\ pc = "start"
    /\ \E indeterminate \in BOOLEAN :
       \E r \in {apply_predicate(passed_by_value(thePredicate, indeterminate), "Person")} :
          /\ query' = r.toks
          /\ outcome' = r.st
          /\ error' = r.err
          /\ pc' = CASE r.st = "ok" -> "built"
                     [] r.st = "error" -> "failed"
                     [] OTHER -> "aborted"
    /\ UNCHANGED <<thePredicate, assertions, objects, result, other, self>>

\* query.validate(); precondition(validateMessage.empty()); return query
ValidateAndReturn ==
    /\ pc = "built"
    /\ \E validateMessage \in {validate(query)} :
          IF validateMessage = ""
          THEN /\ pc' = "returned"
               /\ result' = query
               /\ UNCHANGED <<outcome, error>>
          ELSE /\ pc' = "failed"
               /\ outcome' = "error"
               /\ error' = validateMessage
               /\ UNCHANGED result
    /\ UNCHANGED <<thePredicate, assertions, objects, query, other, self>>

Next == DeleteObject \/ ApplyPredicate \/ ValidateAndReturn

Spec == InitWith(CompoundPredicates) /\ [][Next]_vars

\* Comparisons of a string column with a string constant or nil, and with a
\* string column, with every combination of the [c] and [d] options.
StringPredicates ==
    { Comparison(KeyPath(<<c>>), r, "Direct", op, o) :
        c \in {"name", "nick"},
        r \in { ConstantValue(v) : v \in {Null, StringV(""), StringV("a"), StringV("A")} }
                \cup { KeyPath(<<"name">>), KeyPath(<<"nick">>) },
        op \in {"CONTAINS", "BEGINSWITH", "ENDSWITH", "=="},
        o \in {0, CaseInsensitive, DiacriticInsensitive,
                CaseInsensitive + DiacriticInsensitive} }

SpecString == InitWith(StringPredicates) /\ [][Next]_vars

\* The constants on the right of BETWEEN and IN: nil, a number, a string, and
\* the arrays of up to MaxArrayLen numbers and strings.
CollectionValues ==
    {Null, IntV(1), StringV("a")}
        \cup { ArrayV(items) :
                  items \in SeqsUpTo({IntV(0), IntV(MaxInt), StringV("a"), StringV("A")},
                                     MaxArrayLen) }

\* age BETWEEN constant
BetweenPredicates ==
    { Comparison(KeyPath(<<"age">>), ConstantValue(v), "Direct", "BETWEEN", 0) :
        v \in CollectionValues }

SpecBetween == InitWith(BetweenPredicates) /\ [][Next]_vars

\* age IN constant, name IN constant, name IN[c] constant
InPredicates ==
    { Comparison(KeyPath(<<c>>), ConstantValue(v), "Direct", "IN", o) :
        c \in {"age", "name"}, v \in CollectionValues, o \in {0, CaseInsensitive} }

SpecIn == InitWith(InPredicates) /\ [][Next]_vars

\* One constant of every type of QueryMixed, and nil.
ConstantsOfEveryType ==
    { IntV(n) : n \in 0..MaxInt }
        \cup { FloatV(1), FloatV(3), DoubleV(1), DoubleV(3), DecimalV(2), DecimalV(3),
                StringV("a"), BoolV(TRUE), TimestampV(1), ObjectIdV(1), BinaryV("a"),
                LinkV("Person", 1), Null }

CountKeyPath == <<"friends", ".", "@", "count">>

\* friends.@count OP constant, constant OP friends.@count, and the same for
\* an aggregate of a numeric property of the list.
AggregatePredicates ==
    { Comparison(KeyPath(kp), ConstantValue(v), "Direct", op, 0) :
        kp \in {CountKeyPath, <<"friends", ".", "@", "sum", ".", "age">>},
        v \in ConstantsOfEveryType, op \in ComparisonOperators }
    \cup { Comparison(ConstantValue(v), KeyPath(CountKeyPath), "Direct", op, 0) :
              v \in ConstantsOfEveryType, op \in {"==", "<"} }
    \* negative constants with a fraction on either side of the count
    \cup { Comparison(KeyPath(CountKeyPath), ConstantValue(v), "Direct", op, 0) :
              v \in {FloatV(-1), DoubleV(-3)}, op \in {">", ">="} }
    \cup { Comparison(ConstantValue(v), KeyPath(CountKeyPath), "Direct", op, 0) :
              v \in {FloatV(-1), DoubleV(-3)}, op \in {"==", "<"} }

SpecAggregate == InitWith(AggregatePredicates) /\ [][Next]_vars

\* Keypaths of Person that resolve segment by segment, each with whether a
\* property on it is an array.
KeyPathCases ==
    { [path |-> <<"age">>, array |-> FALSE],
      [path |-> <<"best", ".", "age">>, array |-> FALSE],
      [path |-> <<"dog", ".", "age">>, array |-> FALSE],
      [path |-> <<"best", ".", "best", ".", "age">>, array |-> FALSE],
      [path |-> <<"friends", ".", "age">>, array |-> TRUE],
      [path |-> <<"best", ".", "friends", ".", "age">>, array |-> TRUE],
      [path |-> <<"friends", ".", "best", ".", "age">>, array |-> TRUE],
      [path |-> <<"dog", ".", "owners", ".", "age">>, array |-> TRUE] }

\* The collections of @count and SUBQUERY.
CollectionCases ==
    { [path |-> <<"friends">>, array |-> TRUE],
      [path |-> <<"best", ".", "friends">>, array |-> TRUE],
      [path |-> <<"dog", ".", "owners">>, array |-> TRUE],
      [path |-> <<"best">>, array |-> FALSE],
      [path |-> <<"dog">>, array |-> FALSE],
      [path |-> <<"best", ".", "best">>, array |-> FALSE] }

SubqueryCount(collection, subpredicate) ==
    Function(Subquery(collection, subpredicate), "valueForKeyPath:", KeyPath(<<"@", "count">>))

\* keypath OP n and ANY keypath OP n, collection.@count OP n, and
\* SUBQUERY(collection, $x, TRUEPREDICATE).@count OP n.
KeyPathPredicates ==
    { Comparison(KeyPath(c.path), ConstantValue(IntV(n)), m, op, 0) :
        c \in KeyPathCases, n \in 0..MaxInt, m \in {"Direct", "Any"}, op \in {">", "=="} }
    \cup { Comparison(KeyPath(c.path \o <<".", "@", "count">>), ConstantValue(IntV(n)),
                       "Direct", op, 0) :
              c \in CollectionCases, n \in 0..MaxInt, op \in {">", "=="} }
    \cup { Comparison(SubqueryCount(c.path, TruePredicate), ConstantValue(IntV(n)),
                       "Direct", op, 0) :
              c \in CollectionCases, n \in 0..MaxInt, op \in {">", "=="} }

SpecKeyPath == InitWith(KeyPathPredicates) /\ [][Next]_vars

\* A to-one link, a list and a linking-objects property compared with an
\* object, on either side for the to-one link.  The keys of the objects are
\* those inserted and one more that never was.
LinkPredicates ==
    { Comparison(KeyPath(<<"best">>), ConstantValue(LinkV("Person", k)), "Direct", op, 0) :
        k \in 1..(MaxKey + 1), op \in {"==", "!=", "<", ">=", "CONTAINS"} }
    \cup { Comparison(ConstantValue(LinkV("Dog", k)), KeyPath(<<"dog">>), "Direct", op, 0) :
              k \in 1..(MaxKey + 1), op \in {"==", "!=", "<", ">=", "CONTAINS"} }
    \cup { Comparison(KeyPath(kp), ConstantValue(LinkV("Person", k)), "Any", op, 0) :
              kp \in {<<"friends">>, <<"dog", ".", "owners">>},
              k \in 1..(MaxKey + 1), op \in {"==", "!=", "<", ">=", "CONTAINS"} }

SpecLink == InitWith(LinkPredicates) /\ [][Next]_vars

\* Predicates that are rejected, each beside one that compiles: nil where an
\* array or a number is expected, a SUBQUERY whose predicate is rejected,
\* BETWEEN over a list whose array is rejected, a rejected subpredicate
\* followed by siblings.
RejectedPredicates ==
    { Comparison(KeyPath(<<"age">>), ConstantValue(v), "Direct", op, 0) :
        v \in {Null, ArrayV(<<IntV(0), IntV(MaxInt)>>)}, op \in {"BETWEEN", "IN"} }
    \cup { Comparison(KeyPath(CountKeyPath), ConstantValue(v), "Direct", op, 0) :
              v \in {Null, IntV(1)}, op \in ComparisonOperators }
    \cup { Comparison(SubqueryCount(<<"friends">>, p), ConstantValue(IntV(0)), "Direct", ">", 0) :
              p \in LeafPredicates \cup {RejectedLeaf} }
    \cup { Comparison(KeyPath(<<"friends", ".", "age">>), ConstantValue(ArrayV(items)), "Any",
                       "BETWEEN", 0) :
              items \in {<<IntV(0)>>, <<IntV(0), IntV(1)>>, <<IntV(0), StringV("a")>>} }
    \cup { Compound(t, <<RejectedLeaf, p>>) : t \in {"And", "Or"}, p \in LeafPredicates }

SpecRejected == InitWith(RejectedPredicates) /\ [][Next]_vars

\* Every pair of operands under every modifier, with one operand of every
\* kind of expression: keypaths (of a column, through a list, with a
\* collection operator, of no property), constants (a number, nil, an
\* array), an array literal, SUBQUERY(...).@count and a bare SUBQUERY.
OperandPredicates ==
    LET Operands ==
            { KeyPath(<<"age">>), KeyPath(<<"friends", ".", "age">>), KeyPath(CountKeyPath),
              KeyPath(<<"nosuch">>),
              ConstantValue(IntV(1)), ConstantValue(Null),
              ConstantValue(ArrayV(<<IntV(0), IntV(MaxInt)>>)),
              Aggregate(ArrayV(<<IntV(0), IntV(MaxInt)>>)),
              SubqueryCount(<<"friends">>, TruePredicate),
              Subquery(<<"friends">>, TruePredicate) }
    IN { Comparison(l, r, m, op, 0) :
           l \in Operands, r \in Operands, m \in {"Direct", "Any", "All"},
           op \in {"==", "<", "IN", "BETWEEN", "CONTAINS"} }

\* nil on the left of a keypath: every property of Person, properties over a
\* link and over a list, and keypaths with a collection operator, under
\* every operator.
NilLeftPredicates ==
    { Comparison(ConstantValue(Null), KeyPath(kp), "Direct", op, 0) :
        kp \in { <<p.name>> : p \in PersonProperties }
                 \cup { <<"best", ".", "age">>, <<"best", ".", "nick">>, <<"friends", ".", "age">>,
                        CountKeyPath, <<"friends", ".", "@", "sum", ".", "age">>,
                        <<"friends", ".", "@", "avg", ".", "age">> },
        op \in ComparisonOperators
                 \cup {"BEGINSWITH", "ENDSWITH", "CONTAINS", "LIKE", "MATCHES", "IN", "BETWEEN"} }

\* Functions and subqueries compared with a constant or a keypath:
\* SUBQUERY(friends, $x, p).@count, another function or another argument on
\* the subquery, a function of another operand, and the bare subquery.
SubqueryPredicates ==
    { Comparison(l, r, "Direct", op, 0) :
        l \in { Function(Subquery(<<"friends">>, p), f, a) :
                  p \in {TruePredicate} \cup LeafPredicates,
                  f \in {"valueForKeyPath:", "count:"},
                  a \in {KeyPath(<<"@", "count">>), KeyPath(<<"@", "sum">>), KeyPath(<<"age">>),
                         ConstantValue(IntV(1))} }
                \cup { Function(o, "valueForKeyPath:", KeyPath(<<"@", "count">>)) :
                         o \in {KeyPath(<<"friends">>), ConstantValue(IntV(1))} }
                \cup { Subquery(<<"friends">>, TruePredicate) },
        r \in { ConstantValue(v) :
                  v \in {IntV(n) : n \in 0..MaxInt}
                           \cup {DoubleV(2), StringV("a"), BoolV(TRUE), Null} }
                \cup { KeyPath(<<"age">>) },
        op \in {">", "=="} }

SpecOperands ==
    InitWith(OperandPredicates \cup NilLeftPredicates \cup SubqueryPredicates)
        /\ [][Next]_vars

\* A column of every scalar type compared with constants that are valid for
\* it (nil for the string columns), under every operator and, for the string
\* columns, every combination of options.
TypedPredicates ==
    { Comparison(KeyPath(<<cv[1]>>), ConstantValue(cv[2]), "Direct", op, 0) :
        cv \in { <<"age", IntV(n)>> : n \in 0..MaxInt }
                 \cup { <<"ok", BoolV(TRUE)>>, <<"ok", BoolV(FALSE)>>, <<"ok", IntV(1)>>,
                        <<"score", DoubleV(1)>>, <<"score", FloatV(3)>>, <<"score", IntV(1)>>,
                        <<"ratio", FloatV(1)>>, <<"ratio", DoubleV(3)>>, <<"ratio", IntV(1)>>,
                        <<"cost", DecimalV(2)>>, <<"cost", IntV(1)>>, <<"cost", StringV("1")>>,
                        <<"born", TimestampV(1)>>, <<"oid", ObjectIdV(1)>> },
        op \in ComparisonOperators \cup {"BEGINSWITH", "ENDSWITH", "CONTAINS", "LIKE", "MATCHES"} }
      \cup
    { Comparison(KeyPath(<<column>>), ConstantValue(v), "Direct", op, o) :
        column \in {"name", "nick"}, v \in {StringV("a"), Null},
        op \in ComparisonOperators \cup {"BEGINSWITH", "ENDSWITH", "CONTAINS", "LIKE", "MATCHES"},
        o \in {0, CaseInsensitive, DiacriticInsensitive,
               CaseInsensitive + DiacriticInsensitive} }

\* Two keypaths without a collection operator compared with each other: the
\* properties of Person and the keypaths of KeyPathCases.
ColumnPredicates ==
    { Comparison(KeyPath(l), KeyPath(r), "Direct", op, 0) :
        l \in { <<p.name>> : p \in PersonProperties } \cup { c.path : c \in KeyPathCases },
        r \in { <<p.name>> : p \in PersonProperties } \cup { c.path : c \in KeyPathCases },
        op \in {"==", "<", "CONTAINS"} }

SpecTyped == InitWith(TypedPredicates \cup ColumnPredicates) /\ [][Next]_vars

\* Keypaths compared with an integer and with nil: keypaths that resolve,
\* keypaths with a missing property, a property that is no link, an empty
\* segment, and keypaths with a well-formed, a malformed, an unsupported and
\* a misapplied collection operator.
PathPredicates ==
    { Comparison(KeyPath(kp), ConstantValue(v), m, "==", 0) :
        kp \in { c.path : c \in KeyPathCases }
                 \cup { <<"nosuch">>, <<"best">>, <<"dog", ".", "name">>, <<"dog", ".", "owners">>,
                        <<"best", ".", "nosuch">>, <<"nosuch", ".", "age">>,
                        <<"best", ".", "best", ".", "nosuch">>, <<"dog", ".", "nick">>,
                        <<"age", ".", "age">>, <<"name", ".", "age">>, <<"tags", ".", "age">>,
                        <<"best", ".", "age", ".", "age">>, <<"age", ".", "nosuch">>,
                        <<"best", ".">>, <<"best", ".", "best", ".">>,
                        <<".", "age">>, <<"best", ".", ".", "age">> },
        v \in {IntV(1), Null}, m \in {"Direct", "Any"} }
      \cup
    { Comparison(KeyPath(leading \o name \o trailing), ConstantValue(IntV(n)), "Direct", "==", 0) :
        leading \in { <<"friends", ".">>, <<"best", ".", "friends", ".">>,
                      <<"dog", ".", "owners", ".">>, <<"friends", ".", "best", ".">>,
                      <<"best", ".">>, <<"age", ".">>, <<"nosuch", ".">>, <<"friends">>, <<>> },
        name \in { <<"@", f>> : f \in {"count", "min", "max", "sum", "avg", "size"} }
                   \cup { <<"@">> },
        trailing \in { <<>>, <<".", "age">>, <<".", "score">>, <<".", "ratio">>, <<".", "cost">>,
                       <<".", "name">>, <<".", "ok">>, <<".", "born">>, <<".", "nosuch">>,
                       <<".", "best", ".", "age">>, <<".">> },
        n \in 0..MaxInt }

SpecPath == InitWith(PathPredicates) /\ [][Next]_vars

\* One predicate of every kind that emits a term: True, False, a comparison,
\* a negated comparison, IN with and without items, BETWEEN, BETWEEN over a
\* to-many link, and the count of a subquery.
TermPredicates ==
    {TruePredicate, FalsePredicate}
        \cup LeafPredicates
        \cup { Comparison(KeyPath(<<"age">>), ConstantValue(ArrayV(<<>>)), "Direct", "IN", 0),
               Comparison(KeyPath(<<"age">>), ConstantValue(ArrayV(<<IntV(0), IntV(1)>>)),
                          "Direct", "BETWEEN", 0),
               Comparison(KeyPath(<<"friends", ".", "age">>),
                          ConstantValue(ArrayV(<<IntV(0), IntV(1)>>)), "Any", "BETWEEN", 0),
               Comparison(SubqueryCount(<<"friends">>, FalsePredicate), ConstantValue(IntV(0)),
                          "Direct", ">", 0) }

\* Comparisons that reach the constraint builders of one type, the rewriting
\* of IN and the validation of the constant, and compounds of terms.
ConstraintPredicates ==
    \* a data property, directly and through links, and a binary constant or nil
    { Comparison(KeyPath(kp), ConstantValue(v), "Direct", op, 0) :
        kp \in {<<"data">>, <<"best", ".", "data">>, <<"best", ".", "best", ".", "data">>},
        v \in {BinaryV(""), BinaryV("a"), Null},
        op \in ComparisonOperators \cup {"BEGINSWITH", "ENDSWITH", "CONTAINS", "LIKE", "MATCHES"} }
      \cup
    { Comparison(KeyPath(<<"friends", ".", "data">>), ConstantValue(v), "Any", op, 0) :
        v \in {BinaryV(""), BinaryV("a"), Null},
        op \in ComparisonOperators \cup {"BEGINSWITH", "ENDSWITH", "CONTAINS", "LIKE", "MATCHES"} }
      \cup
    \* a binary constant on the left of a data property
    { Comparison(ConstantValue(v), KeyPath(<<"data">>), "Direct", op, 0) :
        v \in {BinaryV(""), BinaryV("a")},
        op \in ComparisonOperators \cup {"BEGINSWITH", "ENDSWITH", "CONTAINS", "LIKE", "MATCHES"} }
      \cup
    \* two data properties
    { Comparison(KeyPath(l), KeyPath(r), "Direct", op, 0) :
        l \in {<<"data">>, <<"best", ".", "data">>}, r \in {<<"data">>, <<"best", ".", "data">>},
        op \in ComparisonOperators \cup {"BEGINSWITH", "ENDSWITH", "CONTAINS", "LIKE", "MATCHES"} }
      \cup
    \* keypaths with and without a collection operator compared with each other
    { Comparison(KeyPath(l), KeyPath(r), "Direct", op, 0) :
        l \in { CountKeyPath, <<"friends", ".", "@", "sum", ".", "age">>,
                <<"friends", ".", "@", "avg", ".", "score">>,
                <<"age">>, <<"score">>, <<"name">>, <<"ok">>, <<"born">>, <<"best", ".", "age">>,
                <<"friends", ".", "age">>, <<"tags">>, <<"nosuch">> },
        r \in { CountKeyPath, <<"friends", ".", "@", "sum", ".", "age">>,
                <<"friends", ".", "@", "avg", ".", "score">>,
                <<"age">>, <<"score">>, <<"name">>, <<"ok">>, <<"born">>, <<"best", ".", "age">>,
                <<"friends", ".", "age">>, <<"tags">>, <<"nosuch">> },
        op \in {"==", "<"} }
      \cup
    \* constant IN keypath, with every combination of options
    { Comparison(ConstantValue(v), KeyPath(kp), "Direct", "IN", o) :
        v \in {IntV(1), StringV("a"), StringV("A"), Null, LinkV("Person", 1),
               ArrayV(<<IntV(1)>>)},
        kp \in { <<"tags">>, <<"friends">>, <<"friends", ".", "age">>, <<"friends", ".", "name">>,
                 <<"dog", ".", "owners">>, <<"age">>, <<"name">>, <<"best", ".", "age">>,
                 <<"nosuch">>, CountKeyPath },
        o \in {0, CaseInsensitive, DiacriticInsensitive,
               CaseInsensitive + DiacriticInsensitive} }
      \cup
    \* ANY keypath BETWEEN constant over a to-many link
    { Comparison(KeyPath(<<"friends", ".", "age">>), ConstantValue(v), "Any", "BETWEEN", 0) :
        v \in CollectionValues }
      \cup
    { Comparison(KeyPath(kp), ConstantValue(v), "Any", "BETWEEN", 0) :
        kp \in { <<"friends", ".", "best", ".", "age">>, <<"best", ".", "friends", ".", "age">>,
                 <<"friends", ".", "name">> },
        v \in { Null, IntV(1), ArrayV(<<IntV(0)>>), ArrayV(<<IntV(0), IntV(MaxInt)>>),
                ArrayV(<<StringV("a"), StringV("a")>>), ArrayV(<<IntV(0), StringV("a")>>),
                ArrayV(<<IntV(0), IntV(1), IntV(MaxInt)>>) } }
      \cup
    \* every column against a constant of every type, valid for it or not
    { Comparison(KeyPath(mk[2]), ConstantValue(v), mk[1], op, 0) :
        mk \in { <<"Direct", <<p.name>> >> : p \in { q \in PersonProperties : ~q.array } }
                 \cup { <<"Any", <<"tags">> >>, <<"Any", <<"friends">> >>,
                        <<"Any", <<"dog", ".", "owners">> >>, <<"Direct", <<"best", ".", "ratio">> >> },
        v \in ConstantsOfEveryType
                 \cup { BoolV(FALSE), StringV("1"), LinkV("Dog", 1), DoubleV(NaN),
                        DoubleV(FloatMax), DoubleV(FloatMax + 1), DoubleV(-(FloatMax + 1)) },
        op \in {"=="} }
      \cup
    \* compounds over a predicate of every kind, and compounds of compounds
    { Compound(t, <<p, q>>) : t \in {"And", "Or"}, p \in TermPredicates, q \in LeafPredicates }
      \cup { Compound("Not", <<p>>) : p \in TermPredicates }
      \cup NestedCompounds(CompoundsOf(LeafPredicates, MaxNestedChildren))

SpecConstraint == InitWith(ConstraintPredicates) /\ [][Next]_vars

\* ------------------------------------------- copying and moving a QueryMixed
\* other is the QueryMixed copied or moved: one of every variant, and the
\* arrays of up to MaxArrayLen values that are not arrays.  self is the
\* QueryMixed made from it: a new object (Null) or one that already holds a
\* value and is assigned over.
InitMixed ==
    /\ other \in
          { Null, BoolV(TRUE), BoolV(FALSE), FloatV(1), DoubleV(3), StringV(""), StringV("a"),
            BinaryV("a"), TimestampV(1), DecimalV(2), ObjectIdV(1), LinkV("Person", 1),
            ArrayV(<<BoolV(TRUE)>>) }
              \cup { IntV(n) : n \in 0..MaxInt }
              \cup { ArrayV(items) : items \in SeqsUpTo({IntV(0), StringV("a")}, MaxArrayLen) }
    /\ self \in {Null, IntV(0), BoolV(TRUE), ArrayV(<<IntV(0)>>)}
    /\ pc = "constructed"
    /\ thePredicate = TruePredicate
    /\ assertions \in BOOLEAN
    /\ objects = [c \in ClassNames |-> AllKeys]
    /\ query = <<>>
    /\ outcome = "none"
    /\ error = ""
    /\ result = NoQuery

\* QueryMixed(QueryMixed const&) and operator=(QueryMixed const&)
CopyMixed ==
    /\ pc = "constructed"
    /\ \E indeterminate \in BOOLEAN : self' = assign(other, FALSE, indeterminate)
    /\ pc' = "copied"
    /\ UNCHANGED <<thePredicate, assertions, objects, query, outcome, error, result, other>>

\* QueryMixed(QueryMixed&&) and operator=(QueryMixed&&)
MoveMixed ==
    /\ pc = "constructed"
    /\ \E indeterminate \in BOOLEAN : self' = assign(other, TRUE, indeterminate)
    /\ other' = IF other.t = "LinkList" THEN ArrayV(<<>>) ELSE other
    /\ pc' = "moved"
    /\ UNCHANGED <<thePredicate, assertions, objects, query, outcome, error, result>>

SpecMixed == InitMixed /\ [][CopyMixed \/ MoveMixed]_vars

\* ================================================================ claims
Compiled == pc \in {"built", "returned"}
Rejected == pc \in {"failed", "aborted"}
Finished == pc \in {"returned", "failed", "aborted"}

MatchesAll(toks) == \A row \in RowSpace : matches(toks, row)
MatchesNone(toks) == \A row \in RowSpace : ~matches(toks, row)

\* C1: compiling Compound(And, []) gives a query that matches every row, as
\* compiling True does, and compiling Compound(Or, []) gives a query that
\* matches no row, as compiling False does; both compilations succeed.
C1_EmptyCompound ==
    /\ thePredicate \in {Compound("And", <<>>), TruePredicate} =>
          /\ ~Rejected
          /\ Compiled => query = <<TrueExpression>>
          /\ pc = "returned" => MatchesAll(result)
    /\ thePredicate \in {Compound("Or", <<>>), FalsePredicate} =>
          /\ ~Rejected
          /\ Compiled => query = <<FalseExpression>>
          /\ pc = "returned" => MatchesNone(result)

C1_Witness ==
    /\ pc = "returned"
    /\ thePredicate = Compound("Or", <<>>)
    /\ MatchesNone(result)

\* The meaning of a predicate on a row: AND, OR and NOT of the meanings of the
\* subpredicates; the meaning of a comparison is that of its own compiled query.
RECURSIVE Meaning(_, _)
Meaning(p, row) ==
    IF p.kind = "Compound"
    THEN CASE p.compoundType = "And" ->
                \A i \in 1..Len(p.subpredicates) : Meaning(p.subpredicates[i], row)
           [] p.compoundType = "Or" ->
                \E i \in 1..Len(p.subpredicates) : Meaning(p.subpredicates[i], row)
           [] OTHER -> ~Meaning(p.subpredicates[1], row)
    ELSE matches(apply_predicate(p, "Person").toks, row)

\* C2: the query compiled from a compound predicate matches a row iff every
\* (AND), some (OR), not the (NOT) subpredicate matches it, at every nesting.
C2_CompoundMeaning ==
    (pc = "returned" /\ thePredicate.kind = "Compound") =>
        /\ evaluable(result)
        /\ \A row \in RowSpace : matches(result, row) = Meaning(thePredicate, row)

C2_Witness ==
    /\ pc = "returned"
    /\ thePredicate.kind = "Compound" /\ thePredicate.compoundType = "Not"
    /\ thePredicate.subpredicates[1].kind = "Compound"
    /\ thePredicate.subpredicates[1].compoundType = "Or"
    /\ Len(thePredicate.subpredicates[1].subpredicates) >= 2
    /\ \E row \in RowSpace : matches(result, row)
    /\ \E row \in RowSpace : ~matches(result, row)

\* A CONTAINS comparison of a string column with the empty string or nil
\* under diacritic-sensitive options.
ContainsEmptyOrNull ==
    /\ thePredicate \in StringPredicates
    /\ thePredicate.operator_type = "CONTAINS"
    /\ ~is_set(thePredicate.options, DiacriticInsensitive)
    /\ thePredicate.right.type = "ConstantValue"
    /\ thePredicate.right.value \in {Null, StringV("")}

ComparedProperty == property_named("Person", thePredicate.left.key_path[1])

CompilesToNoRow ==
    /\ ~Rejected
    /\ pc = "returned" => evaluable(result) /\ MatchesNone(result)

\* C3 as stated: CONTAINS of the empty string or nil on a string column,
\* nullable or not, compiles and the compiled query matches no row.
C3_ContainsEmptyAnyColumn == ContainsEmptyOrNull => CompilesToNoRow

\* C3: CONTAINS of the empty string on a string column, nullable or not, and
\* of nil on a nullable string column compiles to a query that matches no
\* row; nil on a column that is not nullable is rejected as a value of the
\* wrong type and no query is returned.
C3_ContainsEmpty ==
    ContainsEmptyOrNull =>
        IF is_null(thePredicate.right.value) /\ ~ComparedProperty.optional
        THEN /\ ~Compiled /\ pc # "aborted"
             /\ result = NoQuery
             /\ pc = "failed" => error = "ExpectedObjectOfType"
        ELSE CompilesToNoRow

C3_Witness ==
    /\ ContainsEmptyOrNull
    /\ pc = "returned"
    /\ is_null(thePredicate.right.value)
    /\ thePredicate.options = CaseInsensitive
    /\ MatchesNone(result)

\* The constant of the comparison and the items of an array constant.
ComparedValue == thePredicate.right.value
IsArray(value) == value.t = "LinkList"
AllOfType(items, type) == \A i \in 1..Len(items) : items[i].t = type

\* The compilation failed with the error err and nothing was emitted or returned.
FailsWith(err) ==
    /\ ~Compiled /\ pc # "aborted"
    /\ pc = "failed" => error = err /\ query = <<>> /\ result = NoQuery

\* The compilation of age BETWEEN [lo, hi] for numbers lo and hi.
BetweenCompiles ==
    /\ ~Rejected
    /\ Compiled =>
          /\ Len(query) = 4 /\ query[1] = group /\ query[4] = end_group
          /\ \A i \in 2..3 : query[i].k = "cmp"
    /\ pc = "returned" =>
          /\ evaluable(result)
          /\ \A row \in RowSpace :
                matches(result, row) = (/\ row.age.v >= ComparedValue.v[1].v
                                        /\ row.age.v <= ComparedValue.v[2].v)

\* C4 as stated: BETWEEN on a numeric column with an array of two valid
\* elements [lo, hi] compiles to one group equivalent to col >= lo AND
\* col <= hi; a right-hand side that is not an array, and an array of one or
\* three elements, fails with the error of the BETWEEN array shape and emits
\* no constraint.
C4_Between ==
    thePredicate \in BetweenPredicates =>
        IF ~IsArray(ComparedValue) \/ Len(ComparedValue.v) \in {1, 3}
        THEN FailsWith("BetweenRequiresArray")
        ELSE (Len(ComparedValue.v) = 2 /\ AllOfType(ComparedValue.v, "Int")) => BetweenCompiles

\* The row's cell equals the item under the comparison options.
EqualUnder(cell, item, options) ==
    IF cell.t = "String" /\ is_set(options, CaseInsensitive)
    THEN fold_case(cell.v) = fold_case(item.v)
    ELSE cell.v = item.v

\* C5 as stated: keypath IN array compiles, for the empty array to a valid
\* query that matches no row and for elements of the column's type to the OR
\* of the equalities under the predicate's options; an element of another
\* type, and a right-hand side that is not an array, fails with an error.
C5_In ==
    thePredicate \in InPredicates =>
        IF ~IsArray(ComparedValue) THEN ~Compiled /\ pc # "aborted" /\ result = NoQuery
        ELSE IF AllOfType(ComparedValue.v, ComparedProperty.type)
        THEN /\ ~Rejected
             /\ pc = "returned" =>
                   /\ evaluable(result)
                   /\ \A row \in RowSpace :
                         matches(result, row) =
                            \E i \in 1..Len(ComparedValue.v) :
                                EqualUnder(row[ComparedProperty.name], ComparedValue.v[i],
                                           thePredicate.options)
        ELSE ~Compiled /\ pc # "aborted" /\ result = NoQuery

\* friends.@count on the left of a constant.
CountComparison ==
    /\ thePredicate \in AggregatePredicates
    /\ thePredicate.left.type = "KeyPath"
    /\ thePredicate.left.key_path = CountKeyPath

\* C6 as stated: friends.@count OP c compiles for every float, double and
\* decimal constant c, and fails with the type-mismatch error of the
\* aggregate comparison, never an abort, for a constant of a type that is
\* not numeric.
C6_CountConstant ==
    CountComparison =>
        IF ComparedValue.t \in {"Float", "Double", "Decimal"}
        THEN ~Rejected
        ELSE ComparedValue.t \in {"String", "Bool", "Timestamp", "ObjectId", "Binary", "Link"}
                => FailsWith("AggregateComparedWithNonNumeric")

\* The keypath a predicate of KeyPathPredicates resolves, whether a property
\* on it is an array, and whether it is resolved in an aggregate context.
OperatorSuffix == <<".", "@", "count">>

IsCountPath(kp) ==
    Len(kp) > 3 /\ SubSeq(kp, Len(kp) - 2, Len(kp)) = OperatorSuffix

ResolvedPath ==
    IF thePredicate.left.type = "Function" THEN thePredicate.left.operand.key_path
    ELSE IF IsCountPath(thePredicate.left.key_path)
         THEN SubSeq(thePredicate.left.key_path, 1, Len(thePredicate.left.key_path) - 3)
    ELSE thePredicate.left.key_path

ResolvedCase ==
    CHOOSE c \in KeyPathCases \cup CollectionCases : c.path = ResolvedPath

AggregateContext ==
    \/ thePredicate.left.type = "Function"
    \/ IsCountPath(thePredicate.left.key_path)
    \/ thePredicate.modifier = "Any"

\* C7: a keypath with an array property on it is rejected with
\* CollectionRequiresAggregate when it is resolved outside an aggregate
\* context, a keypath without one is rejected with AggregateOnNonCollection
\* when it is resolved in an aggregate context (ANY, the collection of an
\* @operator or of a SUBQUERY), and where the two agree (as in
\* friends.@count) the keypath resolves and the comparison compiles.
C7_KeyPathContext ==
    thePredicate \in KeyPathPredicates =>
        IF ResolvedCase.array = AggregateContext THEN ~Rejected
        ELSE FailsWith(IF AggregateContext THEN "AggregateOnNonCollection"
                       ELSE "CollectionRequiresAggregate")

C7_Witness ==
    /\ thePredicate \in KeyPathPredicates
    /\ pc = "failed" /\ error = "AggregateOnNonCollection"
    /\ thePredicate.left.type = "Function"

\* The link property and the object of a predicate of LinkPredicates.
LinkKeyPath ==
    IF thePredicate.left.type = "KeyPath" THEN thePredicate.left.key_path
    ELSE thePredicate.right.key_path

LinkObject ==
    IF thePredicate.left.type = "KeyPath" THEN thePredicate.right.value
    ELSE thePredicate.left.value

LinkProperty ==
    IF LinkKeyPath = <<"dog", ".", "owners">> THEN property_named("Dog", "owners")
    ELSE property_named("Person", LinkKeyPath[1])

TargetIsValid == LinkObject.v[2] \in objects[LinkObject.v[1]]

\* The query is the one comparison of the link column with rhs.
ComparesLinkWith(rhs) ==
    /\ Len(query) = 1 /\ query[1].k = "cmp"
    /\ query[1].op = thePredicate.operator_type
    /\ query[1].l.o = "col" /\ query[1].l.c.property = LinkProperty
    /\ query[1].r = rhs

\* C8: a link property compared with == or != to an object that is not
\* valid in its table compiles, for an array property, to the comparison of
\* the link column with null and, for a to-one property, to constant false
\* for == and constant true for !=; with a valid object it compiles to the
\* comparison of the link column with that object.
C8_InvalidLinkTarget ==
    (thePredicate \in LinkPredicates /\ thePredicate.operator_type \in {"==", "!="}) =>
        /\ ~Rejected
        /\ Compiled =>
              IF TargetIsValid THEN ComparesLinkWith(ObjOperand(LinkObject))
              ELSE IF LinkProperty.array THEN ComparesLinkWith(NullOperand)
              ELSE IF thePredicate.operator_type = "==" THEN query = <<FalseExpression>>
              ELSE query = <<TrueExpression>>

C8_Witness ==
    /\ thePredicate \in LinkPredicates /\ thePredicate.operator_type = "!="
    /\ pc = "returned"
    /\ LinkKeyPath = <<"best">> /\ LinkObject.v[2] \in AllKeys /\ ~TargetIsValid
    /\ MatchesAll(result)

\* C9 as stated: a link property compared with an object under an operator
\* other than == and != is rejected and nothing is emitted, whether the
\* object is valid or not and whether the property is to-one or to-many.
C9_LinkOperators ==
    (thePredicate \in LinkPredicates /\ thePredicate.operator_type \notin {"==", "!="}) =>
        /\ ~Compiled /\ pc # "aborted"
        /\ pc = "failed" => error # "" /\ query = <<>> /\ result = NoQuery

\* C10 as stated: every rejected predicate ends with one descriptive error
\* and no query; no compilation ends in an abort.
C10_RecoverableError ==
    /\ pc # "aborted"
    /\ pc = "failed" => outcome = "error" /\ error # "" /\ result = NoQuery

\* C11: a comparison with the ALL modifier is rejected with the error of the
\* ALL modifier for every operator and every pair of operands, also where a
\* keypath does not resolve or an operand is not supported, and no constraint
\* is emitted.
C11_AllModifier ==
    (thePredicate.kind = "Comparison" /\ thePredicate.modifier = "All") =>
        FailsWith("AllModifier")

C11_Witness ==
    /\ thePredicate \in OperandPredicates /\ thePredicate.modifier = "All"
    /\ thePredicate.left = KeyPath(<<"nosuch">>)
    /\ thePredicate.right.type = "Subquery"
    /\ pc = "failed" /\ error = "AllModifier"

\* C12: a comparison with the ANY modifier whose operands are not a KeyPath on
\* the left and a ConstantValue on the right (a constant on the left, two
\* keypaths, a function or subquery operand, an array literal on the right,
\* also with IN and BETWEEN) is rejected with the error of the operands of
\* ANY and emits nothing; with those operands it passes that check.
C12_AnyModifier ==
    (thePredicate.kind = "Comparison" /\ thePredicate.modifier = "Any") =>
        IF thePredicate.left.type = "KeyPath" /\ thePredicate.right.type = "ConstantValue"
        THEN pc = "failed" => error # "AnyModifierOperands"
        ELSE FailsWith("AnyModifierOperands")

C12_Witness ==
    /\ thePredicate \in OperandPredicates /\ thePredicate.modifier = "Any"
    /\ thePredicate.left = KeyPath(<<"friends", ".", "age">>)
    /\ thePredicate.right = ConstantValue(IntV(1))
    /\ pc = "returned"

\* C13 as stated: a comparison with the nil constant on the left of a keypath
\* (a column of any type, a link, a keypath with a collection operator) is
\* rejected with an error under every operator, and emits nothing.
C13_NilOnLeft ==
    (/\ thePredicate.kind = "Comparison"
     /\ thePredicate.left = ConstantValue(Null)
     /\ thePredicate.right.type = "KeyPath") =>
        /\ ~Compiled /\ pc # "aborted"
        /\ pc = "failed" => error # "" /\ query = <<>> /\ result = NoQuery

\* A string column of Person compared with nil by == or !=.
StringWithNull ==
    /\ thePredicate \in TypedPredicates
    /\ ComparedProperty.type = "String"
    /\ thePredicate.right = ConstantValue(Null)
    /\ thePredicate.operator_type \in {"==", "!="}

\* C14: stringColumn == nil compiles, when the column is nullable, to a query
\* that matches exactly the rows whose cell is null, and stringColumn != nil
\* to one that matches exactly the others; when the column is not nullable
\* the comparison is rejected as a value of the wrong type.
C14_StringNull ==
    StringWithNull =>
        IF ComparedProperty.optional
        THEN /\ ~Rejected
             /\ pc = "returned" =>
                   /\ evaluable(result)
                   /\ \A row \in RowSpace :
                         matches(result, row) =
                            (is_null(row[ComparedProperty.name])
                                = (thePredicate.operator_type = "=="))
        ELSE FailsWith("ExpectedObjectOfType")

C14_Witness ==
    /\ StringWithNull
    /\ thePredicate.operator_type = "!=" /\ thePredicate.options = DiacriticInsensitive
    /\ pc = "returned"
    /\ \E row \in RowSpace : matches(result, row)
    /\ \E row \in RowSpace : ~matches(result, row)

\* A column of Person compared, under the operator, with a constant that is
\* valid for the column.
ComparesTyped(types) ==
    /\ thePredicate \in TypedPredicates
    /\ ComparedProperty.type \in types

\* C20: on an Int, Float, Double, Date or Decimal column exactly the operators
\* <, <=, >, >=, ==, != compile, and on a Bool or ObjectId column exactly ==
\* and !=; every other operator is rejected as not supported for the type.
C20_OperatorLegality ==
    /\ ComparesTyped({"Int", "Float", "Double", "Date", "Decimal"}) =>
          IF thePredicate.operator_type \in {"<", "<=", ">", ">=", "==", "!="}
          THEN ~Rejected
          ELSE FailsWith("OperatorNotSupportedForType")
    /\ ComparesTyped({"Bool", "ObjectId"}) =>
          IF thePredicate.operator_type \in {"==", "!="}
          THEN ~Rejected
          ELSE FailsWith("OperatorNotSupportedForType")

C20_Witness ==
    /\ ComparesTyped({"Bool", "ObjectId"})
    /\ thePredicate.operator_type = "<"
    /\ pc = "failed" /\ error = "OperatorNotSupportedForType"

\* The type of the property a keypath of ColumnPredicates ends in.
PlainType(key_path) ==
    IF Len(key_path) = 1 THEN property_named("Person", key_path[1]).type ELSE "Int"

\* Whether a keypath of ColumnPredicates passes through or ends in a to-many
\* property.
PlainToMany(key_path) ==
    IF Len(key_path) = 1
    THEN property_named("Person", key_path[1]).array
    ELSE \E c \in KeyPathCases : c.path = key_path /\ c.array

\* C15: two keypaths without a collection operator compile only when neither
\* passes a to-many property and their property types are equal; when neither
\* passes a to-many property and the types differ the comparison is rejected
\* as a comparison between two types.
C15_ColumnComparison ==
    thePredicate \in ColumnPredicates =>
        /\ Compiled =>
              /\ ~PlainToMany(thePredicate.left.key_path)
              /\ ~PlainToMany(thePredicate.right.key_path)
              /\ PlainType(thePredicate.left.key_path)
                    = PlainType(thePredicate.right.key_path)
        /\ (/\ ~PlainToMany(thePredicate.left.key_path)
            /\ ~PlainToMany(thePredicate.right.key_path)
            /\ PlainType(thePredicate.left.key_path)
                  # PlainType(thePredicate.right.key_path)) =>
              FailsWith("ComparisonBetweenTypes")

C15_Witness ==
    /\ thePredicate \in ColumnPredicates
    /\ thePredicate.left.key_path = <<"age">>
    /\ thePredicate.right.key_path = <<"score">>
    /\ thePredicate.operator_type = "<"
    /\ pc = "failed" /\ error = "ComparisonBetweenTypes"

\* SUBQUERY(collection, $x, predicate).@count compared with an integer
\* constant on the right.
SubqueryCountForm ==
    /\ thePredicate.left.type = "Function"
    /\ thePredicate.left.operand.type = "Subquery"
    /\ thePredicate.left.function_name = "valueForKeyPath:"
    /\ thePredicate.left.argument = KeyPath(<<"@", "count">>)
    /\ thePredicate.right.type = "ConstantValue"
    /\ thePredicate.right.value.t = "Int"

\* C16 as stated: a comparison whose left operand is a subquery or a function
\* compiles only as SUBQUERY(...).@count compared with an integer constant;
\* another function, another argument, an operand that is no subquery, a bare
\* subquery and a right operand that is no integer constant (a keypath, a
\* double, a string, nil) are each rejected with a compile error.
C16_SubqueryCount ==
    thePredicate \in SubqueryPredicates =>
        /\ Compiled => SubqueryCountForm
        /\ ~SubqueryCountForm =>
              /\ ~Compiled /\ pc # "aborted"
              /\ pc = "failed" => error # "" /\ query = <<>> /\ result = NoQuery

\* The segments of a keypath between its dots; "" stands for an empty
\* segment and "?" for one that is not a single name.
RECURSIVE Segments(_)
Segments(keyPath) ==
    LET dot == find(keyPath, 1, ".")
        head == IF dot = 1 THEN "" ELSE IF dot = 2 THEN keyPath[1] ELSE "?"
    IN IF dot = Len(keyPath) + 1 THEN <<head>>
       ELSE <<head>> \o Segments(SubSeq(keyPath, dot + 1, Len(keyPath)))

\* The walk of the segments from i on against the schema of className.
RECURSIVE ResolveSegments(_, _, _, _)
ResolveSegments(className, segments, i, links) ==
    IF property_named(className, segments[i]) = NoProperty
    THEN [st |-> "PropertyNotFound", links |-> <<>>, property |-> NoProperty]
    ELSE IF i = Len(segments)
    THEN [st |-> "ok", links |-> links, property |-> property_named(className, segments[i])]
    ELSE IF property_named(className, segments[i]).type \notin {"Object", "LinkingObjects"}
    THEN [st |-> "NotALink", links |-> <<>>, property |-> NoProperty]
    ELSE ResolveSegments(property_named(className, segments[i]).objectClassName, segments,
                         i + 1, Append(links, property_named(className, segments[i])))

PlainKeyPath ==
    /\ thePredicate \in PathPredicates
    /\ ~contains(thePredicate.left.key_path, "@")

\* The outcome of compiling a plain keypath whose walk ends as resolved.
ResolvesAs(resolved) ==
    /\ resolved.st = "PropertyNotFound" => FailsWith("PropertyNotFound")
    /\ resolved.st = "NotALink" => FailsWith("NotALink")
    /\ resolved.st = "ok" =>
          /\ pc = "failed" => error \notin {"PropertyNotFound", "NotALink"}
          /\ Compiled =>
                \A i \in 1..Len(query) :
                    query[i].k = "cmp" =>
                        /\ query[i].l.o = "col"
                        /\ query[i].l.c.links = resolved.links
                        /\ query[i].l.c.property = resolved.property

\* C17 as stated: a keypath is walked segment by segment; a segment that names
\* no property of the current schema is rejected as property not found, a
\* non-terminal segment that is no link as not a link, and otherwise the
\* reference compiled into the query has the non-terminal segments as its
\* link chain and the last segment as its property.
C17_KeyPathResolution ==
    PlainKeyPath =>
        ResolvesAs(ResolveSegments("Person", Segments(thePredicate.left.key_path), 1, <<>>))

CollectionKeyPath ==
    /\ thePredicate \in PathPredicates
    /\ contains(thePredicate.left.key_path, "@")

\* The parts of a keypath around its first '@': the keypath before the dot
\* that precedes it, the name after it up to the next dot, and the key after
\* that dot.
OperatorAt == find(thePredicate.left.key_path, 1, "@")
NameEnd == find(thePredicate.left.key_path, OperatorAt + 1, ".")
LeadingKeyPath == SubSeq(thePredicate.left.key_path, 1, OperatorAt - 2)
OperatorName == SubSeq(thePredicate.left.key_path, OperatorAt + 1, NameEnd - 1)
HasTrailingKey == NameEnd <= Len(thePredicate.left.key_path)
TrailingKey ==
    SubSeq(thePredicate.left.key_path, NameEnd + 1, Len(thePredicate.left.key_path))

\* The '@' is neither the first nor the last character and follows a dot.
WellFormedOperator ==
    /\ OperatorAt > 1 /\ OperatorAt < Len(thePredicate.left.key_path)
    /\ thePredicate.left.key_path[OperatorAt - 1] = "."

FailsWithAnError ==
    /\ ~Compiled /\ pc # "aborted"
    /\ pc = "failed" => error # "" /\ query = <<>> /\ result = NoQuery

\* The operand compiled for the collection operator is that of the split:
\* the collection is the leading keypath, the function the operator name
\* and the aggregated column the trailing key on the collection's objects.
CompiledAsSplit(leading) ==
    \A i \in 1..Len(query) :
        query[i].k = "cmp" =>
            /\ query[i].l.o \in {"count", "agg"}
            /\ query[i].l.fn = (IF OperatorName = <<"avg">> THEN "average" ELSE OperatorName[1])
            /\ leading.st = "ok"
            /\ query[i].l.c.links = leading.links
            /\ query[i].l.c.property = leading.property
            /\ IF HasTrailingKey
               THEN /\ query[i].l.tc # NoColumn
                    /\ query[i].l.tc.links = Append(leading.links, leading.property)
                    /\ <<query[i].l.tc.property.name>> = TrailingKey
               ELSE query[i].l.tc = NoColumn

\* C18: a keypath with '@' is rejected as invalid when the '@' is its first
\* or its last character; otherwise it is split at the '@' into the leading
\* keypath, the operator name and an optional trailing key, it is rejected
\* when the trailing key contains a further dot or the operator name is none
\* of @count, @min, @max, @sum, @avg, and a query is compiled only for the
\* operand of that split.
C18_CollectionOperatorSplit ==
    CollectionKeyPath =>
        /\ (OperatorAt = 1 \/ OperatorAt = Len(thePredicate.left.key_path)) =>
              FailsWith("InvalidKeyPath")
        /\ ~WellFormedOperator => FailsWithAnError
        /\ WellFormedOperator =>
              /\ (HasTrailingKey /\ contains(TrailingKey, ".")) => FailsWithAnError
              /\ OperatorName \notin { <<f>> : f \in {"count", "min", "max", "sum", "avg"} } =>
                    FailsWithAnError
              /\ Compiled =>
                    CompiledAsSplit(ResolveSegments("Person", Segments(LeadingKeyPath), 1, <<>>))
        /\ thePredicate.left.key_path = <<"friends", ".", "@", "sum", ".", "best", ".", "age">> =>
              FailsWith("SingleLevelKey")
        /\ thePredicate.left.key_path = <<"friends", ".", "@", "size">> =>
              FailsWith("UnsupportedCollectionOperation")

C18_Witness ==
    /\ CollectionKeyPath
    /\ thePredicate.left.key_path = <<"best", ".", "friends", ".", "@", "avg", ".", "score">>
    /\ pc = "returned"
    /\ \E i \in 1..Len(query) : query[i].k = "cmp" /\ query[i].l.fn = "average"

\* The property a collection operator is applied to.
AppliedTo(leading) == IF leading.st = "ok" THEN leading.property ELSE NoProperty

\* The property the trailing key names on the objects of the collection.
TargetOf(collection) ==
    IF collection # NoProperty /\ collection.type \in {"Object", "LinkingObjects"}
          /\ Len(TrailingKey) = 1
    THEN property_named(collection.objectClassName, TrailingKey[1])
    ELSE NoProperty

\* C19 for the collection property a keypath applies its operator to.
OperationInvariant(collection) ==
    /\ Compiled =>
          \A i \in 1..Len(query) :
              query[i].k = "cmp" =>
                  /\ query[i].l.c.property.array
                  /\ IF query[i].l.fn = "count"
                     THEN query[i].l.tc = NoColumn
                     ELSE /\ query[i].l.tc # NoColumn
                          /\ query[i].l.tc.property.type
                                \in {"Int", "Float", "Double", "Decimal"}
    /\ (collection = NoProperty \/ ~collection.array) => FailsWithAnError
    /\ (OperatorName = <<"count">> /\ HasTrailingKey) => FailsWithAnError
    /\ (OperatorName \in { <<f>> : f \in {"min", "max", "sum", "avg"} } /\ ~HasTrailingKey) =>
          FailsWithAnError
    /\ (/\ OperatorName \in { <<f>> : f \in {"min", "max", "sum", "avg"} }
        /\ HasTrailingKey
        /\ TargetOf(collection) = NoProperty
              \/ TargetOf(collection).type \notin {"Int", "Float", "Double", "Decimal"}) =>
          FailsWithAnError

\* C19: a collection operation is compiled only on an array property, for
\* @count only without a target column and for @min, @max, @sum, @avg only
\* with a target column of type Int, Float, Double or Decimal; list.@count.x,
\* list.@sum and list.@min.name are rejected.
C19_CollectionOperation ==
    (CollectionKeyPath /\ WellFormedOperator) =>
        /\ OperationInvariant(
              AppliedTo(ResolveSegments("Person", Segments(LeadingKeyPath), 1, <<>>)))
        /\ thePredicate.left.key_path = <<"friends", ".", "@", "count", ".", "age">> =>
              FailsWith("CountHasNoProperties")
        /\ thePredicate.left.key_path \in { <<"friends", ".", "@", "sum">>,
                                             <<"friends", ".", "@", "min", ".", "name">> } =>
              FailsWith("AggregateOnNonNumericProperty")

C19_Witness ==
    /\ CollectionKeyPath
    /\ thePredicate.left.key_path = <<"friends", ".", "@", "count", ".", "age">>
    /\ pc = "failed" /\ error = "CountHasNoProperties"

\* A string column compared, with the diacritic-insensitive option set, with
\* a constant that is valid for it.
DiacriticInsensitiveString ==
    /\ thePredicate \in TypedPredicates
    /\ ComparedProperty.type = "String"
    /\ is_set(thePredicate.options, DiacriticInsensitive)
    /\ thePredicate.right = ConstantValue(Null) => ComparedProperty.optional

\* The returned query matches exactly the rows the compiled query equal does
\* not match.
NegationOf(equal) ==
    /\ equal.st = "ok"
    /\ evaluable(result) /\ evaluable(equal.toks)
    /\ \A row \in RowSpace : matches(result, row) = ~matches(equal.toks, row)

\* C21: with the diacritic-insensitive option exactly BEGINSWITH, ENDSWITH,
\* CONTAINS, == and != compile on a string column, LIKE is rejected as not
\* supported with the option, and the query compiled for != matches exactly
\* the rows that the query compiled for == with the same operands and options
\* does not match.
C21_DiacriticInsensitive ==
    DiacriticInsensitiveString =>
        /\ IF thePredicate.operator_type \in {"BEGINSWITH", "ENDSWITH", "CONTAINS", "==", "!="}
           THEN ~Rejected
           ELSE FailsWithAnError
        /\ thePredicate.operator_type = "LIKE" => FailsWith("LikeWithDiacriticInsensitive")
        /\ (thePredicate.operator_type = "!=" /\ pc = "returned") =>
              NegationOf(apply_predicate([thePredicate EXCEPT !.operator_type = "=="], "Person"))

C21_Witness ==
    /\ DiacriticInsensitiveString
    /\ thePredicate.operator_type = "!="
    /\ thePredicate.left = KeyPath(<<"name">>)
    /\ thePredicate.options = CaseInsensitive + DiacriticInsensitive
    /\ pc = "returned"
    /\ \E row \in RowSpace : matches(result, row)
    /\ \E row \in RowSpace : ~matches(result, row)

\* The keypath of the comparison and its constant, whichever side they are on.
KeyPathSide ==
    IF thePredicate.left.type = "KeyPath" THEN thePredicate.left ELSE thePredicate.right
ConstantSide ==
    IF thePredicate.left.type = "KeyPath" THEN thePredicate.right ELSE thePredicate.left

\* A comparison whose keypaths all end in the data property of Person and
\* whose constant, if it has one, is binary or nil.
ComparesData ==
    /\ thePredicate \in ConstraintPredicates
    /\ thePredicate.kind = "Comparison"
    /\ KeyPathSide.key_path[Len(KeyPathSide.key_path)] = "data"
    /\ ConstantSide.type = "ConstantValue" => ConstantSide.value.t \in {"Binary", "Null"}

\* The query is the one comparison of the data column of the queried table
\* with the constant.
DirectDataComparison ==
    /\ Len(query) = 1 /\ query[1].k = "cmp"
    /\ query[1].op = thePredicate.operator_type
    /\ query[1].l.o = "col"
    /\ query[1].l.c.property.name = "data" /\ query[1].l.c.links = <<>>
    /\ IF is_null(ConstantSide.value)
       THEN query[1].r.o = "null"
       ELSE query[1].r.o = "val" /\ query[1].r.val = ConstantSide.value

ComparesAggregate ==
    /\ thePredicate \in ConstraintPredicates
    /\ thePredicate.kind = "Comparison"
    /\ thePredicate.left.type = "KeyPath" /\ thePredicate.right.type = "KeyPath"
    /\ contains(thePredicate.left.key_path, "@") \/ contains(thePredicate.right.key_path, "@")

\* The keypath without a collection operator resolves to a numeric property
\* without passing a to-many property.
NumericOutsideAggregate(resolved) ==
    /\ resolved.st = "ok"
    /\ ~resolved.property.array
    /\ \A i \in 1..Len(resolved.links) : ~resolved.links[i].array
    /\ resolved.property.type \in {"Int", "Float", "Double", "Decimal"}

\* C23: two keypaths that both have a collection operator are rejected; when
\* exactly one has, the comparison is rejected unless the other keypath
\* resolves outside an aggregate context to a property of numeric type.
C23_AggregateComparison ==
    ComparesAggregate =>
        IF contains(thePredicate.left.key_path, "@") /\ contains(thePredicate.right.key_path, "@")
        THEN FailsWith("AggregateComparedWithAggregate")
        ELSE NumericOutsideAggregate(
                 ResolveSegments("Person",
                     Segments(IF contains(thePredicate.left.key_path, "@")
                              THEN thePredicate.right.key_path
                              ELSE thePredicate.left.key_path), 1, <<>>))
               \/ FailsWithAnError

C23_Witness ==
    /\ ComparesAggregate
    /\ thePredicate.left.key_path = <<"name">>
    /\ thePredicate.right.key_path = <<"friends", ".", "@", "sum", ".", "age">>
    /\ pc = "failed" /\ error = "AggregateComparedWithNonNumeric"

\* C24 as stated: the QueryMixed made by copying or moving a QueryMixed has
\* the type and the payload of its source, for every variant.
C24_CopyAndMove ==
    [][(CopyMixed \/ MoveMixed) => (self'.t = other.t /\ self'.v = other.v)]_vars

\* ------------------------------------------------------ constant IN keypath
ConstantInKeyPath ==
    /\ thePredicate \in ConstraintPredicates
    /\ thePredicate.kind = "Comparison"
    /\ thePredicate.operator_type = "IN"
    /\ thePredicate.left.type = "ConstantValue"
    /\ thePredicate.right.type = "KeyPath"

\* The keypath without a trailing collection operator.
WithoutOperator(keyPath) ==
    IF contains(keyPath, "@") THEN SubSeq(keyPath, 1, find(keyPath, 1, "@") - 2) ELSE keyPath

ContainsArrayProperty(resolved) ==
    /\ resolved.st = "ok"
    /\ \/ resolved.property.array
       \/ \E i \in 1..Len(resolved.links) : resolved.links[i].array

\* The state is the one that compiling the predicate with the result r leaves.
SameOutcomeAs(r) ==
    /\ pc = "built" => r.st = "ok" /\ query = r.toks
    /\ pc = "returned" => r.st = "ok" /\ result = r.toks
    /\ pc = "aborted" => r.st = "abort"
    /\ pc = "failed" =>
          \/ r.st = "error" /\ error = r.err
          \/ r.st = "ok" /\ query = r.toks /\ error = validate(r.toks)

\* C25: constant IN keypath compiles to exactly the result, the same query
\* or the same failure, of ANY keypath == constant without options, whatever
\* options the predicate carries, and it compiles only when the keypath
\* contains an array-typed property.
C25_ConstantInKeyPath ==
    ConstantInKeyPath =>
        /\ SameOutcomeAs(apply_predicate(
               Comparison(thePredicate.right, thePredicate.left, "Any", "==", 0), "Person"))
        /\ Compiled =>
              ContainsArrayProperty(
                  ResolveSegments("Person", Segments(WithoutOperator(thePredicate.right.key_path)),
                                  1, <<>>))

C25_Witness ==
    /\ ConstantInKeyPath
    /\ thePredicate.right.key_path = <<"tags">>
    /\ thePredicate.left.value = StringV("a")
    /\ thePredicate.options = CaseInsensitive + DiacriticInsensitive
    /\ pc = "returned"

\* ---------------------------------------------- BETWEEN over a to-many link
BetweenResolved ==
    ResolveSegments("Person", Segments(thePredicate.left.key_path), 1, <<>>)

BetweenOverToMany ==
    /\ thePredicate \in ConstraintPredicates
    /\ thePredicate.kind = "Comparison"
    /\ thePredicate.operator_type = "BETWEEN"
    /\ thePredicate.left.type = "KeyPath"
    /\ thePredicate.modifier = "Any"
    /\ BetweenResolved.st = "ok"
    /\ \E i \in 1..Len(BetweenResolved.links) : BetweenResolved.links[i].array

\* The links before the last one, the last link and its target class, and the
\* terminal column as a column of that class.
OuterLinks(resolved) == SubSeq(resolved.links, 1, Len(resolved.links) - 1)
LastLink(resolved) == resolved.links[Len(resolved.links)]
TerminalColumn(resolved) ==
    ColumnReference(LastLink(resolved).objectClassName, resolved.property, <<>>)

\* The group col >= lo AND col <= hi.
BoundsGroup(col, lo, hi) ==
    << group,
       Cmp(">=", ColOperand(col), ValOperand(lo), {}),
       Cmp("<=", ColOperand(col), ValOperand(hi), {}),
       end_group >>

\* The result of compiling the same BETWEEN on the terminal column alone, on
\* the table the last link points to.
WithoutLinks(resolved) ==
    apply_predicate(
        Comparison(KeyPath(<<resolved.property.name>>), thePredicate.right, "Direct", "BETWEEN", 0),
        LastLink(resolved).objectClassName)

\* C26: for a BETWEEN whose keypath crosses a to-many link the outer query
\* receives exactly one term, count of the rows linked through the last link
\* that match the subquery > 0; the subquery is on the table the last link
\* points to and is the group col >= lo AND col <= hi on the terminal column
\* without links; no bound is constrained in the outer query; and the checks
\* on the number and the type of the bounds reject what they reject for the
\* terminal column alone.
C26_BetweenOverToMany ==
    BetweenOverToMany =>
        /\ Compiled =>
              LET value == thePredicate.right.value
                  term == query[1]
              IN /\ Len(query) = 1
                 /\ IsArray(value) /\ Len(value.v) = 2
                 /\ term = Cmp(">",
                               SubCountOperand(
                                   ColumnReference("Person", LastLink(BetweenResolved),
                                                   OuterLinks(BetweenResolved)),
                                   BoundsGroup(TerminalColumn(BetweenResolved),
                                               value.v[1], value.v[2])),
                               ValOperand(IntV(0)), {})
        /\ pc \in {"built", "returned"} => WithoutLinks(BetweenResolved).st = "ok"
        /\ pc = "aborted" => WithoutLinks(BetweenResolved).st = "abort"
        /\ pc = "failed" =>
              /\ query = <<>>
              /\ WithoutLinks(BetweenResolved).st = "error"
              /\ error = WithoutLinks(BetweenResolved).err

C26_Witness ==
    /\ BetweenOverToMany
    /\ thePredicate.left.key_path = <<"friends", ".", "best", ".", "age">>
    /\ thePredicate.right.value = ArrayV(<<IntV(0), IntV(MaxInt)>>)
    /\ pc = "returned"
    /\ result[1].l.o = "subcount"

\* ------------------------------------------- constants valid for a column
KeyPathWithConstant ==
    /\ thePredicate \in ConstraintPredicates
    /\ thePredicate.kind = "Comparison"
    /\ thePredicate.operator_type = "=="
    /\ thePredicate.left.type = "KeyPath" /\ thePredicate.right.type = "ConstantValue"
    /\ ~contains(thePredicate.left.key_path, "@")
    /\ ResolveSegments("Person", Segments(thePredicate.left.key_path), 1, <<>>).st = "ok"

ConstantProperty ==
    ResolveSegments("Person", Segments(thePredicate.left.key_path), 1, <<>>).property

\* The constants that are valid for a column of the property.
ValidConstant(property, value) ==
    CASE value.t = "Null" -> property.optional
      [] property.type = "String" -> value.t = "String"
      [] property.type = "Bool" -> value.t = "Bool" \/ value \in {IntV(0), IntV(1)}
      [] property.type = "Int" -> value.t = "Int"
      [] property.type = "Float" ->
            \/ value.t \in {"Float", "Int"}
            \/ value.t = "Double" /\ (value = DoubleV(NaN) \/ (-FloatMax <= value.v /\ value.v <= FloatMax))
      [] property.type = "Double" -> value.t \in {"Float", "Double", "Int"}
      [] property.type = "Date" -> value.t = "Timestamp"
      [] property.type = "Data" -> value.t = "Binary"
      [] property.type = "ObjectId" -> value.t = "ObjectId"
      [] property.type = "Decimal" ->
            \/ value.t \in {"Int", "Float", "Double", "Decimal"}
            \/ value.t = "String" /\ value.v \in DecimalStrings
      [] property.type \in {"Object", "LinkingObjects"} ->
            value.t = "Link" /\ value.v[1] = property.objectClassName
      [] OTHER -> FALSE

\* C27: a keypath compared with a constant is rejected with the type-mismatch
\* error, before any constraint is emitted, unless the constant is valid for
\* the column (null only for a nullable column, and per column type the
\* constants of ValidConstant); a valid constant is not rejected so.
C27_ValueValidity ==
    KeyPathWithConstant =>
        IF ValidConstant(ConstantProperty, thePredicate.right.value)
        THEN ~(pc = "failed" /\ error = "ExpectedObjectOfType") /\ pc # "aborted"
        ELSE FailsWith("ExpectedObjectOfType")

\* ------------------------------------------------ one term per predicate
\* The index after the term that starts at toks[i], or 0 when no term starts
\* there: a term is an expression, Not followed by a term, or a group of one
\* or more terms, each two of which may be separated by one Or.
RECURSIVE TermEnd(_, _)
RECURSIVE GroupEnd(_, _, _)
TermEnd(toks, i) ==
    IF i > Len(toks) THEN 0
    ELSE IF toks[i].k \in {"cmp", "and", "True", "False"} THEN i + 1
    ELSE IF toks[i] = Not THEN TermEnd(toks, i + 1)
    ELSE IF toks[i] = group
         THEN IF TermEnd(toks, i + 1) = 0 THEN 0 ELSE GroupEnd(toks, TermEnd(toks, i + 1), i)
    ELSE 0

\* The index after the end_group of the group opened at toks[open], from
\* toks[i] on, which follows a term of the group.
GroupEnd(toks, i, open) ==
    IF i > Len(toks) THEN 0
    ELSE IF toks[i] = end_group THEN i + 1
    ELSE LET next == TermEnd(toks, IF toks[i] = Or THEN i + 1 ELSE i)
         IN IF next = 0 THEN 0 ELSE GroupEnd(toks, next, open)

OneTerm(toks) == TermEnd(toks, 1) = Len(toks) + 1

Count(toks, tok) == Cardinality({ i \in 1..Len(toks) : toks[i] = tok })

\* C28: after a successful compilation the query has received exactly one
\* term, an expression, optionally preceded by Not, or one balanced group;
\* as many groups are closed as were opened, and every Or and every Not is
\* followed by a term.
C28_OneTerm ==
    Compiled =>
        /\ OneTerm(query)
        /\ Count(query, group) = Count(query, end_group)
        /\ \A i \in 1..Len(query) : query[i] \in {Or, Not} => TermEnd(query, i + 1) # 0

C28_Witness ==
    /\ thePredicate.kind = "Compound" /\ thePredicate.compoundType = "Not"
    /\ thePredicate.subpredicates[1].kind = "Compound"
    /\ thePredicate.subpredicates[1].compoundType = "Or"
    /\ Len(thePredicate.subpredicates[1].subpredicates) = MaxNestedChildren
    /\ pc = "returned"
    /\ Count(result, Or) >= MaxNestedChildren - 1
    /\ Count(result, Not) > 1
    /\ Count(result, group) > 1

\* ----------------------------- diacritic-insensitive substring operators
DiacriticInsensitiveSubstring ==
    /\ thePredicate \in StringPredicates
    /\ thePredicate.operator_type \in {"BEGINSWITH", "ENDSWITH", "CONTAINS"}
    /\ is_set(thePredicate.options, DiacriticInsensitive)

EmptyOrNullConstant ==
    /\ thePredicate.right.type = "ConstantValue"
    /\ thePredicate.right.value \in {Null, StringV("")}

\* The query is the one expression size(rhs) != 0 AND lhs OP rhs, where OP is
\* the diacritic-insensitive substring comparison of the two columns.
SizeAndComparison(toks) ==
    /\ Len(toks) = 1 /\ toks[1].k = "and"
    /\ toks[1].a = Cmp("!=", SizeOperand(ColumnReference("Person", property_named("Person",
                            thePredicate.right.key_path[1]), <<>>)), ValOperand(IntV(0)), {})
    /\ toks[1].b.k = "cmp" /\ toks[1].b.op = "ContainsSubstring"
    /\ "DiacriticInsensitive" \in toks[1].b.flags
    /\ toks[1].b.l.o = "col" /\ toks[1].b.l.c.property = ComparedProperty
    /\ toks[1].b.r.o = "col"
    /\ toks[1].b.r.c.property.name = thePredicate.right.key_path[1]

ColumnOnTheRight ==
    thePredicate.right.type = "KeyPath" =>
        /\ ~Rejected
        /\ Compiled => SizeAndComparison(query)

CountWithFloating ==
    /\ thePredicate \in AggregatePredicates
    /\ KeyPathSide.key_path = CountKeyPath
    /\ ConstantSide.value.t \in {"Float", "Double"}

\* The predicate with its constant replaced by the integer n.
WithInteger(n) ==
    IF thePredicate.left.type = "KeyPath"
    THEN [thePredicate EXCEPT !.right = ConstantValue(IntV(n))]
    ELSE [thePredicate EXCEPT !.left = ConstantValue(IntV(n))]

\* C30: friends.@count compared with a float or double constant c compiles to
\* exactly the constraint of the comparison with the 64-bit integer that is c
\* without its fraction, and the count and the constant are emitted on the
\* sides they have in the predicate.
C30_CountTruncation ==
    CountWithFloating =>
        /\ SameOutcomeAs(apply_predicate(WithInteger(trunc(ConstantSide.value.v)), "Person"))
        /\ Compiled =>
              /\ Len(query) = 1 /\ query[1].k = "cmp"
              /\ query[1].op = thePredicate.operator_type
              /\ IF thePredicate.left.type = "KeyPath"
                 THEN /\ query[1].l.o = "count"
                      /\ query[1].r = ValOperand(IntV(trunc(ConstantSide.value.v)))
                 ELSE /\ query[1].r.o = "count"
                      /\ query[1].l = ValOperand(IntV(trunc(ConstantSide.value.v)))

C30_Witness ==
    /\ CountWithFloating
    /\ thePredicate.left = ConstantValue(DoubleV(-3))
    /\ thePredicate.operator_type = "<"
    /\ pc = "returned"
    /\ result[1].l = ValOperand(IntV(-1))
    /\ result[1].r.o = "count"

====
